---- MODULE Spec2Model ----
(***************************************************************************)
(* Model of mplutils' fixed-size layout engine (src/src/mplutils/_layout.py)*)
(*                                                                         *)
(* Lengths.  Every physical length is an integer number of length units;   *)
(* one inch is UNITS_PER_INCH units and one point is UNITS_PER_INCH /      *)
(* PTS_PER_INCH units, so the division "pts / PTS_PER_INCH" of the source   *)
(* is InchFromPts.  A panel position is kept the way matplotlib keeps it,  *)
(* as a fraction of the figure: numerators x0, y0, width, height over the  *)
(* denominators fw, fh (the figure size when the position was set).  Its   *)
(* physical value is numerator * current figure size / denominator, so a   *)
(* panel whose position is not set again after the figure was resized      *)
(* scales with the figure.                                                 *)
(*                                                                         *)
(* Rows and columns are numbered from 1 here, from 0 in the source: cell   *)
(* (r, c) of the model is axs[r-1, c-1]; row 1 is the top row.             *)
(***************************************************************************)
EXTENDS Integers, Sequences, FiniteSets, TLC

VARIABLES
    fig,    \* the figure: size, gridspec shape, list of axes
    eng,    \* FixedAxesLayoutEngine: _execute_in_progress, _axes_grid, _colorbars
    cfg,    \* FixedAxesLayoutEngine: constructor arguments
    pc,     \* position inside execute/_apply: idle, draw, args, loop, finally
    loc,    \* locals of _apply: run, desired pads, pending exception
    hist,   \* observation: last step taken, figure at entry, how execute ended
    probe   \* input and result of a pure-function call

vars == <<fig, eng, cfg, pc, loc, hist, probe>>

----------------------------------------------------------------------------
(* Units and small helpers *)

PTS_PER_INCH == 72

UNITS_PER_INCH == 100 * PTS_PER_INCH

\* pts / PTS_PER_INCH, in length units
InchFromPts(p) == (p * UNITS_PER_INCH) \div PTS_PER_INCH

Abs(x) == IF x < 0 THEN 0 - x ELSE x

SetMin(S) == CHOOSE x \in S : \A y \in S : x <= y

SetMax(S) == CHOOSE x \in S : \A y \in S : x >= y

RECURSIVE GCD(_, _)
GCD(a, b) == IF b = 0 THEN a ELSE GCD(b, a % b)

Rep(x, n) == [i \in 1..n |-> x]

\* numpy.asarray(arg): a 0-d array (scalar) or a 1-d array
Scalar(x) == [ndim |-> 0, v |-> <<x>>]

Vector(s) == [ndim |-> 1, v |-> s]

NoErr == "none"

----------------------------------------------------------------------------
(* Quadrants *)

Quadrants(t, r, b, l) == [top |-> t, right |-> r, bottom |-> b, left |-> l]

QNeg(q) == Quadrants(0 - q.top, 0 - q.right, 0 - q.bottom, 0 - q.left)

QSub(q, r) ==
    Quadrants(q.top - r.top, q.right - r.right, q.bottom - r.bottom, q.left - r.left)

\* Quadrants / PTS_PER_INCH
QInchFromPts(q) ==
    Quadrants(InchFromPts(q.top), InchFromPts(q.right),
              InchFromPts(q.bottom), InchFromPts(q.left))

\* The operators of the two named tuples.  An instance is [cls, v] with v
\* the tuple of its components (four for Quadrants, two for Area); a scalar
\* is [cls |-> "scalar", v |-> <<x>>].
Instance(cls, v) == [cls |-> cls, v |-> v]

Number(x) == [cls |-> "scalar", v |-> <<x>>]

\* a // b of Python: the floor of the quotient, for b # 0
FloorDiv(a, b) == IF b > 0 THEN a \div b ELSE (0 - a) \div (0 - b)

\* a / b as a fraction in lowest terms with a positive denominator
TrueDiv(a, b) ==
    LET g == GCD(Abs(a), Abs(b))
        sgn == IF b < 0 THEN 0 - 1 ELSE 1
    IN  [num |-> sgn * (a \div g), den |-> sgn * (b \div g)]

\* a op b on numbers
NumOp(op, a, b) ==
    IF op = "+" THEN a + b
    ELSE IF op = "-" THEN a - b
    ELSE IF op = "*" THEN a * b
    ELSE IF op = "/" THEN TrueDiv(a, b)
    ELSE FloorDiv(a, b)

\* the body every binary method shares:
\* "if isinstance(val, T): return T(*[self[i] op val[i] ...])
\*  return T(*[el op val for el in self])"
Elementwise(op, self, val) ==
    IF val.cls = self.cls
    THEN Instance(self.cls, [i \in DOMAIN self.v |-> NumOp(op, self.v[i], val.v[i])])
    ELSE Instance(self.cls, [i \in DOMAIN self.v |-> NumOp(op, self.v[i], val.v[1])])

\* the methods of Quadrants and of Area by name; every reflected method
\* returns "self op val"
Method(name, self, val) ==
    IF name = "__neg__" THEN Instance(self.cls, [i \in DOMAIN self.v |-> 0 - self.v[i]])
    ELSE IF name = "__add__" THEN Elementwise("+", self, val)
    ELSE IF name = "__radd__" THEN Elementwise("+", self, val)
    ELSE IF name = "__sub__" THEN Elementwise("-", self, val)
    ELSE IF name = "__rsub__" THEN Elementwise("-", self, val)
    ELSE IF name = "__mul__" THEN Elementwise("*", self, val)
    ELSE IF name = "__rmul__" THEN Elementwise("*", self, val)
    ELSE IF name = "__truediv__" THEN Elementwise("/", self, val)
    ELSE IF name = "__rtruediv__" THEN Elementwise("/", self, val)
    ELSE IF name = "__floordiv__" THEN Elementwise("//", self, val)
    ELSE Elementwise("//", self, val)

MethodName(op) ==
    IF op = "+" THEN "add" ELSE IF op = "-" THEN "sub" ELSE IF op = "*" THEN "mul"
    ELSE IF op = "/" THEN "truediv" ELSE "floordiv"

\* "left op right" as Python evaluates it: the left operand's method, and
\* the right operand's reflected method when the left operand is a number
BinaryOp(op, left, right) ==
    IF left.cls # "scalar" THEN Method("__" \o MethodName(op) \o "__", left, right)
    ELSE Method("__r" \o MethodName(op) \o "__", right, left)

----------------------------------------------------------------------------
(* Argument normalisation *)

ProcessMarginslikeArg_len3swap(arg) ==
    IF arg.ndim = 0 THEN
        [err |-> NoErr, q |-> Quadrants(arg.v[1], arg.v[1], arg.v[1], arg.v[1])]
    ELSE IF Len(arg.v) = 1 THEN
        [err |-> NoErr, q |-> Quadrants(arg.v[1], arg.v[1], arg.v[1], arg.v[1])]
    ELSE IF Len(arg.v) = 2 THEN
        [err |-> NoErr, q |-> Quadrants(arg.v[1], arg.v[2], arg.v[1], arg.v[2])]
    ELSE IF Len(arg.v) = 3 THEN
        [err |-> NoErr, q |-> Quadrants(arg.v[1], arg.v[2], arg.v[1], arg.v[3])]
    ELSE IF Len(arg.v) = 4 THEN
        [err |-> NoErr, q |-> Quadrants(arg.v[1], arg.v[2], arg.v[3], arg.v[4])]
    ELSE
        [err |-> "ValueError:invalid_length", q |-> Quadrants(0, 0, 0, 0)]

ProcessMarginslikeArg(arg) ==
    IF arg.ndim = 0 THEN
        [err |-> NoErr, q |-> Quadrants(arg.v[1], arg.v[1], arg.v[1], arg.v[1])]
    ELSE IF Len(arg.v) = 1 THEN
        [err |-> NoErr, q |-> Quadrants(arg.v[1], arg.v[1], arg.v[1], arg.v[1])]
    ELSE IF Len(arg.v) = 2 THEN
        [err |-> NoErr, q |-> Quadrants(arg.v[1], arg.v[2], arg.v[1], arg.v[2])]
    ELSE IF Len(arg.v) = 3 THEN
        [err |-> NoErr, q |-> Quadrants(arg.v[1], arg.v[2], arg.v[3], arg.v[2])]
    ELSE IF Len(arg.v) = 4 THEN
        [err |-> NoErr, q |-> Quadrants(arg.v[1], arg.v[2], arg.v[3], arg.v[4])]
    ELSE
        [err |-> "ValueError:invalid_length", q |-> Quadrants(0, 0, 0, 0)]

\* a scalar becomes n copies; a sequence must have length n - 1
ProcessRowcolArgs(vals, n) ==
    IF vals.ndim = 0 THEN [err |-> NoErr, v |-> Rep(vals.v[1], n)]
    ELSE IF Len(vals.v) # n - 1 THEN [err |-> "ValueError:rowcol_length", v |-> <<>>]
    ELSE [err |-> NoErr, v |-> vals.v]

\* numpy's a - b on 1-d arrays, with broadcasting of a length-1 operand
BroadcastSub(a, b) ==
    IF Len(a) = Len(b) THEN [err |-> NoErr, v |-> [i \in 1..Len(a) |-> a[i] - b[i]]]
    ELSE IF Len(b) = 1 THEN [err |-> NoErr, v |-> [i \in 1..Len(a) |-> a[i] - b[1]]]
    ELSE IF Len(a) = 1 THEN [err |-> NoErr, v |-> [i \in 1..Len(b) |-> a[1] - b[i]]]
    ELSE [err |-> "ValueError:broadcast", v |-> <<>>]

----------------------------------------------------------------------------
(* Colorbar side classification.  Both boxes are fraction boxes over the   *)
(* same denominators fw, fh; dx2 and dy2 are twice the centre offsets.     *)

GetColorbarLocation_mirrored(cax_bb, parent_bb) ==
    LET dx2 == (2 * cax_bb.x0 + cax_bb.width) - (2 * parent_bb.x0 + parent_bb.width)
        dy2 == (2 * cax_bb.y0 + cax_bb.height) - (2 * parent_bb.y0 + parent_bb.height)
    IN  IF Abs(dx2) * cax_bb.fh > Abs(dy2) * cax_bb.fw
        THEN (IF dx2 > 0 THEN "left" ELSE "right")
        ELSE (IF dy2 > 0 THEN "top" ELSE "bottom")

GetColorbarLocation(cax_bb, parent_bb) ==
    LET dx2 == (2 * cax_bb.x0 + cax_bb.width) - (2 * parent_bb.x0 + parent_bb.width)
        dy2 == (2 * cax_bb.y0 + cax_bb.height) - (2 * parent_bb.y0 + parent_bb.height)
    IN  IF Abs(dx2) * cax_bb.fh > Abs(dy2) * cax_bb.fw
        THEN (IF dx2 > 0 THEN "right" ELSE "left")
        ELSE (IF dy2 > 0 THEN "top" ELSE "bottom")

----------------------------------------------------------------------------
(* The figure.  An axes is a record                                        *)
(*   cb     : it carries a _colorbar attribute (_is_colorbar_axes)         *)
(*   ss     : its SubplotSpec [gs, num1, num2]; gs = 0 when                *)
(*            get_subplotspec() is None                                    *)
(*   pos    : its position, a fraction box [x0, y0, width, height, fw, fh] *)
(*   lab    : how far its rendered ticks, labels and title reach beyond    *)
(*            the panel on each side (they move rigidly with the panel)    *)
(*   parent : for a colorbar, the axes of its mappable (0 when it has none)*)

NoSubplotSpec == [gs |-> 0, num1 |-> 0, num2 |-> 0]

IsColorbarAxes(ax) == ax.cb

\* Bbox in inches of axes a: fraction times current figure size
GetAxesPositionInch(f, a) ==
    LET p == f.axes[a].pos
    IN  [x0 |-> (p.x0 * f.w) \div p.fw,
         y0 |-> (p.y0 * f.h) \div p.fh,
         x1 |-> ((p.x0 + p.width) * f.w) \div p.fw,
         y1 |-> ((p.y0 + p.height) * f.h) \div p.fh]

\* ax.get_position(), expressed over the current figure size
GetPosition(f, a) ==
    LET b == GetAxesPositionInch(f, a)
    IN  [x0 |-> b.x0, y0 |-> b.y0, width |-> b.x1 - b.x0, height |-> b.y1 - b.y0,
         fw |-> f.w, fh |-> f.h]

SetAxesPositionInch_keepfraction(f, a, x0_inch, y0_inch, width_inch, height_inch) ==
    LET old == f.axes[a].pos
    IN  [f EXCEPT !.axes[a].pos =
            [x0 |-> x0_inch, y0 |-> y0_inch,
             width |-> (old.width * f.w) \div old.fw,
             height |-> (old.height * f.h) \div old.fh,
             fw |-> f.w, fh |-> f.h]]

SetAxesPositionInch(f, a, x0_inch, y0_inch, width_inch, height_inch) ==
    [f EXCEPT !.axes[a].pos =
        [x0 |-> x0_inch, y0 |-> y0_inch, width |-> width_inch, height |-> height_inch,
         fw |-> f.w, fh |-> f.h]]

\* _get_axes_size_inches
GetAxesSizeInches(f, a) ==
    LET b == GetAxesPositionInch(f, a)
    IN  [width |-> b.x1 - b.x0, height |-> b.y1 - b.y0]

----------------------------------------------------------------------------
(* Panel-grid extraction *)

\* indices of the non-colorbar axes, in fig.get_axes() order
AxsUnordered(f) == {i \in 1..Len(f.axes) : ~IsColorbarAxes(f.axes[i])}

\* num1 of gridspec[row, col]
CellNum_colmajor(f, r, c) == (c - 1) * f.nrows + (r - 1)

CellNum(f, r, c) == (r - 1) * f.ncols + (c - 1)

\* the checks made on one subplotspec against the first axes' gridspec
SubplotSpecError_nospancheck(ss, gridspec) ==
    IF ss.gs # gridspec THEN "ValueError:multiple_gridspecs"
    ELSE NoErr

SubplotSpecError(ss, gridspec) ==
    IF ss.gs # gridspec THEN "ValueError:multiple_gridspecs"
    ELSE IF ss.num1 # ss.num2 THEN "ValueError:too_fancy"
    ELSE NoErr

NoGrid == [isNone |-> TRUE, cells |-> <<>>]

\* returns [err, grid]; a cell holds an axes index, or 0 where numpy.empty
\* left None
GetSortedAxesGrid(f) ==
    LET axs == AxsUnordered(f)
        first == SetMin(axs)
        gridspec == f.axes[first].ss.gs
        bad == {i \in axs : SubplotSpecError(f.axes[i].ss, gridspec) # NoErr}
        hits(r, c) ==
            {i \in axs : f.axes[i].ss =
                [gs |-> gridspec, num1 |-> CellNum(f, r, c), num2 |-> CellNum(f, r, c)]}
    IN  IF \E i \in axs : f.axes[i].ss.gs = 0
        THEN [err |-> "ValueError:no_subplotspec", grid |-> NoGrid]
        ELSE IF axs = {}
        THEN [err |-> "AssertionError:empty", grid |-> NoGrid]
        ELSE IF bad # {}
        THEN [err |-> SubplotSpecError(f.axes[SetMin(bad)].ss, gridspec), grid |-> NoGrid]
        ELSE [err |-> NoErr,
              grid |-> [isNone |-> FALSE,
                        cells |-> [rc \in (1..f.nrows) \X (1..f.ncols) |->
                            IF hits(rc[1], rc[2]) = {} THEN 0
                            ELSE SetMax(hits(rc[1], rc[2]))]]]

----------------------------------------------------------------------------
(* Colorbar records *)

ColorbarRecord(f, a) ==
    LET parent == f.axes[a].parent
        cax_pos == GetPosition(f, a)
        par_pos == GetPosition(f, parent)
        location == GetColorbarLocation(cax_pos, par_pos)
    IN  [ax |-> a, parent_ax |-> parent, location |-> location,
         thickness_inch |->
            IF location \in {"left", "right"} THEN cax_pos.width ELSE cax_pos.height,
         pad_inch |->
            IF location = "right" THEN cax_pos.x0 - (par_pos.x0 + par_pos.width)
            ELSE IF location = "left" THEN par_pos.x0 - (cax_pos.x0 + cax_pos.width)
            ELSE IF location = "top" THEN cax_pos.y0 - (par_pos.y0 + par_pos.height)
            ELSE par_pos.y0 - (cax_pos.y0 + cax_pos.height)]

RECURSIVE ColorbarsFrom(_, _)
ColorbarsFrom(f, i) ==
    IF i > Len(f.axes) THEN <<>>
    ELSE IF IsColorbarAxes(f.axes[i])
    THEN <<ColorbarRecord(f, i)>> \o ColorbarsFrom(f, i + 1)
    ELSE ColorbarsFrom(f, i + 1)

\* returns [err, list]; a colorbar whose mappable has no axes makes the scan fail
GetListOfColorbars(f) ==
    IF \E i \in 1..Len(f.axes) : IsColorbarAxes(f.axes[i]) /\ f.axes[i].parent = 0
    THEN [err |-> "AttributeError:parent", list |-> <<>>]
    ELSE [err |-> NoErr, list |-> ColorbarsFrom(f, 1)]

ColorbarPosition_keepextent(f, cb, fig_width_inch, fig_height_inch) ==
    LET bbox_ax == GetPosition(f, cb.parent_ax)
        bbox_cax == GetPosition(f, cb.ax)
        horizontal == cb.location \in {"left", "right"}
        pad == IF horizontal THEN (cb.pad_inch * f.w) \div fig_width_inch
               ELSE (cb.pad_inch * f.h) \div fig_height_inch
        thickness == IF horizontal THEN (cb.thickness_inch * f.w) \div fig_width_inch
                     ELSE (cb.thickness_inch * f.h) \div fig_height_inch
    IN  IF cb.location = "left" THEN
            [x0 |-> bbox_ax.x0 - pad - thickness, y0 |-> bbox_ax.y0,
             width |-> thickness, height |-> bbox_cax.height, fw |-> f.w, fh |-> f.h]
        ELSE IF cb.location = "right" THEN
            [x0 |-> bbox_ax.x0 + bbox_ax.width + pad, y0 |-> bbox_ax.y0,
             width |-> thickness, height |-> bbox_cax.height, fw |-> f.w, fh |-> f.h]
        ELSE IF cb.location = "top" THEN
            [x0 |-> bbox_ax.x0, y0 |-> bbox_ax.y0 + bbox_ax.height + pad,
             width |-> bbox_cax.width, height |-> thickness, fw |-> f.w, fh |-> f.h]
        ELSE
            [x0 |-> bbox_ax.x0, y0 |-> bbox_ax.y0 - pad - thickness,
             width |-> bbox_cax.width, height |-> thickness, fw |-> f.w, fh |-> f.h]

\* the position _update_colorbars gives the axes of colorbar record cb
ColorbarPosition(f, cb, fig_width_inch, fig_height_inch) ==
    LET bbox_ax == GetPosition(f, cb.parent_ax)
        horizontal == cb.location \in {"left", "right"}
        pad == IF horizontal THEN (cb.pad_inch * f.w) \div fig_width_inch
               ELSE (cb.pad_inch * f.h) \div fig_height_inch
        thickness == IF horizontal THEN (cb.thickness_inch * f.w) \div fig_width_inch
                     ELSE (cb.thickness_inch * f.h) \div fig_height_inch
    IN  IF cb.location = "left" THEN
            [x0 |-> bbox_ax.x0 - pad - thickness, y0 |-> bbox_ax.y0,
             width |-> thickness, height |-> bbox_ax.height, fw |-> f.w, fh |-> f.h]
        ELSE IF cb.location = "right" THEN
            [x0 |-> bbox_ax.x0 + bbox_ax.width + pad, y0 |-> bbox_ax.y0,
             width |-> thickness, height |-> bbox_ax.height, fw |-> f.w, fh |-> f.h]
        ELSE IF cb.location = "top" THEN
            [x0 |-> bbox_ax.x0, y0 |-> bbox_ax.y0 + bbox_ax.height + pad,
             width |-> bbox_ax.width, height |-> thickness, fw |-> f.w, fh |-> f.h]
        ELSE
            [x0 |-> bbox_ax.x0, y0 |-> bbox_ax.y0 - pad - thickness,
             width |-> bbox_ax.width, height |-> thickness, fw |-> f.w, fh |-> f.h]

\* "for colorbar in cbars", from the k-th record on.  (CHOOSE over a one-element
\* set is used here and below to evaluate an intermediate value once.)
RECURSIVE UpdateColorbarsFrom(_, _, _, _, _)
UpdateColorbarsFrom(f, cbars, k, fig_width_inch, fig_height_inch) ==
    IF k > Len(cbars) THEN f
    ELSE CHOOSE r \in
            {UpdateColorbarsFrom(g, cbars, k + 1, fig_width_inch, fig_height_inch) :
                g \in {[f EXCEPT !.axes[cbars[k].ax].pos =
                        ColorbarPosition(f, cbars[k], fig_width_inch, fig_height_inch)]}} :
            TRUE

\* fig_width_inch, fig_height_inch: size of the figure _update_colorbars reads
UpdateColorbars(f, cbars, fig_width_inch, fig_height_inch) ==
    UpdateColorbarsFrom(f, cbars, 1, fig_width_inch, fig_height_inch)

----------------------------------------------------------------------------
(* Bounding boxes *)

\* ax.get_tightbbox(renderer) / dpi: the panel and its rendered decorations
RenderedExtentInch(f, a) ==
    LET b == GetAxesPositionInch(f, a)
        l == f.axes[a].lab
    IN  [x0 |-> b.x0 - l.left, y0 |-> b.y0 - l.bottom,
         x1 |-> b.x1 + l.right, y1 |-> b.y1 + l.top]

GetAxesTightbboxInch_anyparent(f, a, cbars) ==
    LET own == RenderedExtentInch(f, a)
        mine == 1..Len(cbars)
        ext(k) == RenderedExtentInch(f, cbars[k].ax)
        loc_(k) == cbars[k].location
        lefts == {own.x0} \cup {ext(k).x0 : k \in {j \in mine : loc_(j) # "right"}}
        rights == {own.x1} \cup {ext(k).x1 : k \in {j \in mine : loc_(j) # "left"}}
        bottoms == {own.y0} \cup {ext(k).y0 : k \in {j \in mine : loc_(j) # "top"}}
        tops == {own.y1} \cup {ext(k).y1 : k \in {j \in mine : loc_(j) # "bottom"}}
    IN  [x0 |-> SetMin(lefts), y0 |-> SetMin(bottoms),
         x1 |-> SetMax(rights), y1 |-> SetMax(tops)]

\* cbars: self._colorbars during a solve, a fresh scan otherwise
GetAxesTightbboxInch(f, a, cbars) ==
    LET own == RenderedExtentInch(f, a)
        mine == {k \in 1..Len(cbars) : cbars[k].parent_ax = a}
        ext(k) == RenderedExtentInch(f, cbars[k].ax)
        loc_(k) == cbars[k].location
        lefts == {own.x0} \cup {ext(k).x0 : k \in {j \in mine : loc_(j) # "right"}}
        rights == {own.x1} \cup {ext(k).x1 : k \in {j \in mine : loc_(j) # "left"}}
        bottoms == {own.y0} \cup {ext(k).y0 : k \in {j \in mine : loc_(j) # "top"}}
        tops == {own.y1} \cup {ext(k).y1 : k \in {j \in mine : loc_(j) # "bottom"}}
    IN  [x0 |-> SetMin(lefts), y0 |-> SetMin(bottoms),
         x1 |-> SetMax(rights), y1 |-> SetMax(tops)]

GetBboxesInchGrid(f, axs) == [rc \in DOMAIN axs |-> GetAxesPositionInch(f, axs[rc])]

GetTbboxesInchGrid(f, axs, cbars) ==
    [rc \in DOMAIN axs |-> GetAxesTightbboxInch(f, axs[rc], cbars)]

\* ignore_labels true selects the panel boxes, false the boxes with labels
GetMarginsInch(ignore_labels, bboxes_inch, tbboxes_inch, figsize, nrows, ncols) ==
    LET il == ProcessMarginslikeArg(ignore_labels)
        box(flag, rc) == IF flag THEN bboxes_inch[rc] ELSE tbboxes_inch[rc]
    IN  IF il.err # NoErr THEN [err |-> il.err, q |-> Quadrants(0, 0, 0, 0)]
        ELSE [err |-> NoErr,
              q |-> Quadrants(
                SetMin({figsize.h - box(il.q.top, <<1, c>>).y1 : c \in 1..ncols}),
                SetMin({figsize.w - box(il.q.right, <<r, ncols>>).x1 : r \in 1..nrows}),
                SetMin({box(il.q.bottom, <<nrows, c>>).y0 : c \in 1..ncols}),
                SetMin({box(il.q.left, <<r, 1>>).x0 : r \in 1..nrows}))]

GetColpadsInch_samerow(nrows, ncols, ignore_labels, bboxes, tbboxes) ==
    LET il == ProcessRowcolArgs(ignore_labels, ncols)
        box(k, rc) == IF il.v[k] THEN bboxes[rc] ELSE tbboxes[rc]
    IN  IF il.err # NoErr THEN [err |-> il.err, v |-> <<>>]
        ELSE [err |-> NoErr,
              v |-> [k \in 1..(ncols - 1) |->
                SetMin({box(k, <<r, k + 1>>).x0 - box(k, <<r, k>>).x1 : r \in 1..nrows})]]

\* entry k is the gap between column k and column k + 1
GetColpadsInch(nrows, ncols, ignore_labels, bboxes, tbboxes) ==
    LET il == ProcessRowcolArgs(ignore_labels, ncols)
        box(k, rc) == IF il.v[k] THEN bboxes[rc] ELSE tbboxes[rc]
    IN  IF il.err # NoErr THEN [err |-> il.err, v |-> <<>>]
        ELSE [err |-> NoErr,
              v |-> [k \in 1..(ncols - 1) |->
                SetMin({box(k, <<r, k + 1>>).x0 : r \in 1..nrows})
                - SetMax({box(k, <<r, k>>).x1 : r \in 1..nrows})]]

\* entry k is the gap between row k and row k + 1 (row k is the upper one)
GetRowpadsInch(nrows, ncols, ignore_labels, bboxes, tbboxes) ==
    LET il == ProcessRowcolArgs(ignore_labels, nrows)
        box(k, rc) == IF il.v[k] THEN bboxes[rc] ELSE tbboxes[rc]
    IN  IF il.err # NoErr THEN [err |-> il.err, v |-> <<>>]
        ELSE [err |-> NoErr,
              v |-> [k \in 1..(nrows - 1) |->
                SetMin({box(k, <<k, c>>).y0 : c \in 1..ncols})
                - SetMax({box(k, <<k + 1, c>>).y1 : c \in 1..ncols})]]

----------------------------------------------------------------------------
(* Mutation helpers.  They work on s = [fig, eng, err]: the figure, the    *)
(* engine fields and the exception raised (NoErr when none).  The figure   *)
(* is the active figure, so plt.gcf() is s.fig.                            *)

\* np.ndenumerate order of an (nrows, ncols) array
CellSeq(nrows, ncols) ==
    [k \in 1..(nrows * ncols) |-> <<((k - 1) \div ncols) + 1, ((k - 1) % ncols) + 1>>]

\* the loop "for (i, j), bbox in np.ndenumerate(bboxes_inch)": every panel of
\* the grid is put at its old box shifted by shift[cell], size unchanged
RECURSIVE SetGridPositions(_, _, _, _, _, _)
SetGridPositions(f, axs, bboxes_inch, shift, cells, k) ==
    IF k > Len(cells) THEN f
    ELSE CHOOSE r \in
            {SetGridPositions(g, axs, bboxes_inch, shift, cells, k + 1) :
                g \in {SetAxesPositionInch(f, axs[cells[k]],
                        bboxes_inch[cells[k]].x0 + shift[cells[k]].dx,
                        bboxes_inch[cells[k]].y0 + shift[cells[k]].dy,
                        bboxes_inch[cells[k]].x1 - bboxes_inch[cells[k]].x0,
                        bboxes_inch[cells[k]].y1 - bboxes_inch[cells[k]].y0)}} :
            TRUE

\* the common shape of _add_margins_inch, _add_colpad_inch, _add_rowpad_inch:
\* scan the colorbars unless a solve is running, resize the figure, move the
\* panels, re-attach the colorbars, drop the scan
ResizeAndShift(s, fw_new, fh_new, axs, bboxes_inch, shift, nrows, ncols) ==
    LET inprog == s.eng.execute_in_progress
        moved(cbars) ==
            CHOOSE r \in
                {UpdateColorbars(f2, cbars, f2.w, f2.h) :
                    f2 \in {SetGridPositions([s.fig EXCEPT !.w = fw_new, !.h = fh_new],
                                axs, bboxes_inch, shift, CellSeq(nrows, ncols), 1)}} :
                TRUE
        rescan(scan) ==
            IF scan.err # NoErr THEN [s EXCEPT !.err = scan.err]
            ELSE [fig |-> moved(scan.list),
                  eng |-> [s.eng EXCEPT !.colorbars = <<>>], err |-> NoErr]
    IN  IF inprog THEN [fig |-> moved(s.eng.colorbars), eng |-> s.eng, err |-> NoErr]
        ELSE CHOOSE r \in {rescan(scan) : scan \in {GetListOfColorbars(s.fig)}} : TRUE

AddMarginsInch_shiftbytop(s, margins_inch, axs, bboxes_inch, nrows, ncols) ==
    ResizeAndShift(s,
        s.fig.w + margins_inch.left + margins_inch.right,
        s.fig.h + margins_inch.top + margins_inch.bottom,
        axs, bboxes_inch,
        [rc \in DOMAIN axs |-> [dx |-> margins_inch.left, dy |-> margins_inch.top]],
        nrows, ncols)

AddMarginsInch(s, margins_inch, axs, bboxes_inch, nrows, ncols) ==
    ResizeAndShift(s,
        s.fig.w + margins_inch.left + margins_inch.right,
        s.fig.h + margins_inch.top + margins_inch.bottom,
        axs, bboxes_inch,
        [rc \in DOMAIN axs |-> [dx |-> margins_inch.left, dy |-> margins_inch.bottom]],
        nrows, ncols)

\* columns 1..col stay, columns col+1.. move right by pad_inch
AddColpadInch_offbyone(s, col, pad_inch, axs, bboxes_inch, nrows, ncols) ==
    ResizeAndShift(s, s.fig.w + pad_inch, s.fig.h, axs, bboxes_inch,
        [rc \in DOMAIN axs |-> [dx |-> IF rc[2] - 1 <= col THEN 0 ELSE pad_inch, dy |-> 0]],
        nrows, ncols)

AddColpadInch(s, col, pad_inch, axs, bboxes_inch, nrows, ncols) ==
    ResizeAndShift(s, s.fig.w + pad_inch, s.fig.h, axs, bboxes_inch,
        [rc \in DOMAIN axs |-> [dx |-> IF rc[2] - 1 < col THEN 0 ELSE pad_inch, dy |-> 0]],
        nrows, ncols)

AddRowpadInch_frombottom(s, row, pad_inch, axs, bboxes_inch, nrows, ncols) ==
    ResizeAndShift(s, s.fig.w, s.fig.h + pad_inch, axs, bboxes_inch,
        [rc \in DOMAIN axs |->
            [dx |-> 0, dy |-> IF nrows - rc[1] >= row THEN pad_inch ELSE 0]],
        nrows, ncols)

AddRowpadInch_samefigure(s, row, pad_inch, axs, bboxes_inch, nrows, ncols) ==
    ResizeAndShift(s, s.fig.w, s.fig.h, axs, bboxes_inch,
        [rc \in DOMAIN axs |-> [dx |-> 0, dy |-> IF rc[1] - 1 >= row THEN 0 ELSE pad_inch]],
        nrows, ncols)

\* rows row+1.. stay, rows 1..row move up by pad_inch
AddRowpadInch(s, row, pad_inch, axs, bboxes_inch, nrows, ncols) ==
    ResizeAndShift(s, s.fig.w, s.fig.h + pad_inch, axs, bboxes_inch,
        [rc \in DOMAIN axs |-> [dx |-> 0, dy |-> IF rc[1] - 1 >= row THEN 0 ELSE pad_inch]],
        nrows, ncols)

----------------------------------------------------------------------------
(* _apply *)

RoundDecimals == 5

RECURSIVE Pow10(_)
Pow10(n) == IF n = 0 THEN 1 ELSE 10 * Pow10(n - 1)

\* round(width, 5) as a count of 10^-5 inch.  The exact count is u * n / d
\* with n / d = 10^5 / UNITS_PER_INCH in lowest terms; d is odd, so no value
\* lies halfway and Python's round-half-even never decides.
RoundFigwidth_truncate(u) ==
    LET g == GCD(Pow10(RoundDecimals), UNITS_PER_INCH)
        n == Pow10(RoundDecimals) \div g
        d == UNITS_PER_INCH \div g
    IN  (u * n) \div d

RoundFigwidth(u) ==
    LET g == GCD(Pow10(RoundDecimals), UNITS_PER_INCH)
        n == Pow10(RoundDecimals) \div g
        d == UNITS_PER_INCH \div g
    IN  (2 * u * n + d) \div (2 * d)

\* max_figwidth is [inf, v]: numpy.inf, or v counted in 10^-6 inch
FigwidthTooWide(necessary_figwidth, max_figwidth) ==
    ~max_figwidth.inf /\ RoundFigwidth(necessary_figwidth) * 10 > max_figwidth.v

FirstErr(errs) ==
    IF \A i \in 1..Len(errs) : errs[i] = NoErr THEN NoErr
    ELSE errs[SetMin({i \in 1..Len(errs) : errs[i] # NoErr})]

\* the argument processing before the loop
NormalizeArgs(c, nrows, ncols) ==
    LET m == ProcessMarginslikeArg(c.margin_pad_pts)
        cp == IF ncols > 1 THEN ProcessRowcolArgs(c.col_pad_pts, ncols - 1)
              ELSE [err |-> NoErr, v |-> <<>>]
        rp == IF nrows > 1 THEN ProcessRowcolArgs(c.row_pad_pts, nrows - 1)
              ELSE [err |-> NoErr, v |-> <<>>]
        e == FirstErr(<<m.err, IF m.err = NoErr THEN cp.err ELSE NoErr,
                        IF m.err = NoErr /\ cp.err = NoErr THEN rp.err ELSE NoErr>>)
    IN  IF e # NoErr
        THEN [err |-> e, desired_margin_pads |-> Quadrants(0, 0, 0, 0),
              desired_colpads |-> <<>>, desired_rowpads |-> <<>>]
        ELSE [err |-> NoErr,
              desired_margin_pads |-> QInchFromPts(m.q),
              desired_colpads |-> [i \in 1..Len(cp.v) |-> InchFromPts(cp.v[i])],
              desired_rowpads |-> [i \in 1..Len(rp.v) |-> InchFromPts(rp.v[i])]]

RECURSIVE ColLoop(_, _, _, _, _, _)
ColLoop(s, icol, colpad_deltas, axs, nrows, ncols) ==
    IF icol > ncols - 1 \/ s.err # NoErr THEN s
    ELSE IF icol > Len(colpad_deltas) THEN [s EXCEPT !.err = "IndexError"]
    ELSE CHOOSE r \in
            {ColLoop(t, icol + 1, colpad_deltas, axs, nrows, ncols) :
                t \in {AddColpadInch(s, icol, 0 - colpad_deltas[icol], axs,
                                     GetBboxesInchGrid(s.fig, axs), nrows, ncols)}} :
            TRUE

RECURSIVE RowLoop(_, _, _, _, _, _)
RowLoop(s, irow, rowpad_deltas, axs, nrows, ncols) ==
    IF irow > nrows - 1 \/ s.err # NoErr THEN s
    ELSE IF irow > Len(rowpad_deltas) THEN [s EXCEPT !.err = "IndexError"]
    ELSE CHOOSE r \in
            {RowLoop(t, irow + 1, rowpad_deltas, axs, nrows, ncols) :
                t \in {AddRowpadInch(s, irow, 0 - rowpad_deltas[irow], axs,
                                     GetBboxesInchGrid(s.fig, axs), nrows, ncols)}} :
            TRUE

\* "if ncols > 1: colpad_deltas = ...; for icol in range(1, ncols): ..."
ApplyColpads(s, current_colpads, desired_colpads, axs, nrows, ncols) ==
    LET go(colpad_deltas) ==
            IF colpad_deltas.err # NoErr THEN [s EXCEPT !.err = colpad_deltas.err]
            ELSE ColLoop(s, 1, colpad_deltas.v, axs, nrows, ncols)
    IN  IF ncols <= 1 THEN s
        ELSE CHOOSE r \in
                {go(dl) : dl \in {BroadcastSub(current_colpads, desired_colpads)}} : TRUE

\* "if nrows > 1: rowpad_deltas = ...; for irow in range(1, nrows): ..."
ApplyRowpads(s, current_rowpads, desired_rowpads, axs, nrows, ncols) ==
    LET go(rowpad_deltas) ==
            IF rowpad_deltas.err # NoErr THEN [s EXCEPT !.err = rowpad_deltas.err]
            ELSE RowLoop(s, 1, rowpad_deltas.v, axs, nrows, ncols)
    IN  IF nrows <= 1 \/ s.err # NoErr THEN s
        ELSE CHOOSE r \in
                {go(dl) : dl \in {BroadcastSub(current_rowpads, desired_rowpads)}} : TRUE

\* one iteration of "while run < nruns"
ApplyPassBody(s, c, d) ==
    LET axs == s.eng.axes_grid.cells
        nrows == s.fig.nrows
        ncols == s.fig.ncols
        current_figsize == [w |-> s.fig.w, h |-> s.fig.h]
        adjust(bboxes, current_colpads, current_rowpads, current_margins) ==
            IF current_colpads.err # NoErr THEN [s EXCEPT !.err = current_colpads.err]
            ELSE IF current_rowpads.err # NoErr THEN [s EXCEPT !.err = current_rowpads.err]
            ELSE IF current_margins.err # NoErr THEN [s EXCEPT !.err = current_margins.err]
            ELSE CHOOSE r \in
                    {ApplyRowpads(s2, current_rowpads.v, d.desired_rowpads,
                                  axs, nrows, ncols) :
                        s2 \in {ApplyColpads(s1, current_colpads.v, d.desired_colpads,
                                             axs, nrows, ncols) :
                            s1 \in {AddMarginsInch(s,
                                        QNeg(QSub(current_margins.q, d.desired_margin_pads)),
                                        axs, bboxes, nrows, ncols)}}} :
                    TRUE
        measure(bboxes, tbboxes) ==
            CHOOSE r \in
                {adjust(bboxes, cp, rp, m) :
                    cp \in {GetColpadsInch(nrows, ncols, c.col_pad_ignores_labels,
                                           bboxes, tbboxes)},
                    rp \in {GetRowpadsInch(nrows, ncols, c.row_pad_ignores_labels,
                                           bboxes, tbboxes)},
                    m \in {GetMarginsInch(c.margin_pad_ignores_labels, bboxes, tbboxes,
                                          current_figsize, nrows, ncols)}} :
                TRUE
    IN  CHOOSE r \in
            {measure(b, t) :
                b \in {GetBboxesInchGrid(s.fig, axs)},
                t \in {GetTbboxesInchGrid(s.fig, axs, s.eng.colorbars)}} :
            TRUE

----------------------------------------------------------------------------
(* execute and _apply as steps *)

ExecuteIgnored_never(e) == FALSE

\* "if self._execute_in_progress: return"
ExecuteIgnored(e) == e.execute_in_progress

EngineCleared == [execute_in_progress |-> FALSE, axes_grid |-> NoGrid, colorbars |-> <<>>]

LocInit ==
    [run |-> 0, desired_margin_pads |-> Quadrants(0, 0, 0, 0),
     desired_colpads |-> <<>>, desired_rowpads |-> <<>>,
     current_margins |-> Quadrants(0, 0, 0, 0),
     current_colpads |-> <<>>, current_rowpads |-> <<>>, err |-> NoErr]

Observe(last, pre, outcome, err) ==
    [last |-> last, pre |-> pre, outcome |-> outcome, err |-> err]

\* a top-level call of execute, up to the try statement; pr is what the
\* caller's bookkeeping becomes
ExecuteStep(pr) ==
    /\ pc = "idle"
    /\ LET g == GetSortedAxesGrid(fig)
           cb == GetListOfColorbars(fig)
       IN  IF ExecuteIgnored(eng) THEN
               /\ hist' = Observe("Execute", fig, "ignored", NoErr)
               /\ probe' = pr
               /\ UNCHANGED <<fig, eng, cfg, pc, loc>>
           ELSE IF g.err # NoErr THEN
               /\ eng' = [eng EXCEPT !.execute_in_progress = TRUE]
               /\ hist' = Observe("Execute", fig, "raised", g.err)
               /\ probe' = pr
               /\ UNCHANGED <<fig, cfg, pc, loc>>
           ELSE IF cb.err # NoErr THEN
               /\ eng' = [eng EXCEPT !.execute_in_progress = TRUE, !.axes_grid = g.grid]
               /\ hist' = Observe("Execute", fig, "raised", cb.err)
               /\ probe' = pr
               /\ UNCHANGED <<fig, cfg, pc, loc>>
           ELSE
               /\ eng' = [execute_in_progress |-> TRUE, axes_grid |-> g.grid,
                          colorbars |-> cb.list]
               /\ pc' = "draw"
               /\ loc' = LocInit
               /\ hist' = Observe("Execute", fig, "running", NoErr)
               /\ probe' = pr
               /\ UNCHANGED <<fig, cfg>>

Execute == ExecuteStep(probe)

\* fig.canvas.draw() in _apply: the render pass calls the figure's layout
\* engine, that is execute, again.  Were the call not ignored it would start a
\* solve of its own, whose draw calls execute again, and so on until
\* RecursionError unwinds every level through its finally clause.
NestedExecute ==
    /\ pc = "draw"
    /\ IF ExecuteIgnored(eng) THEN
           /\ pc' = "args"
           /\ UNCHANGED <<fig, eng, loc>>
       ELSE
           /\ eng' = EngineCleared
           /\ loc' = [loc EXCEPT !.err = "RecursionError"]
           /\ pc' = "finally"
           /\ UNCHANGED fig
    /\ hist' = [hist EXCEPT !.last = "NestedExecute"]
    /\ UNCHANGED <<cfg, probe>>

\* _apply from "axs = ..." to "while"
ApplyNormalize ==
    /\ pc = "args"
    /\ LET d == NormalizeArgs(cfg, fig.nrows, fig.ncols)
       IN  /\ loc' = [LocInit EXCEPT !.desired_margin_pads = d.desired_margin_pads,
                                      !.desired_colpads = d.desired_colpads,
                                      !.desired_rowpads = d.desired_rowpads,
                                      !.err = d.err]
           /\ pc' = IF d.err # NoErr THEN "finally" ELSE "loop"
    /\ hist' = [hist EXCEPT !.last = "ApplyNormalize"]
    /\ UNCHANGED <<fig, eng, cfg, probe>>

\* current_colpads, current_rowpads and current_margins of a pass: the
\* values measured at its top
PassMeasurement(s, c) ==
    LET axs == s.eng.axes_grid.cells
        measure(bboxes, tbboxes) ==
            [colpads |-> GetColpadsInch(s.fig.nrows, s.fig.ncols, c.col_pad_ignores_labels,
                                        bboxes, tbboxes),
             rowpads |-> GetRowpadsInch(s.fig.nrows, s.fig.ncols, c.row_pad_ignores_labels,
                                        bboxes, tbboxes),
             margins |-> GetMarginsInch(c.margin_pad_ignores_labels, bboxes, tbboxes,
                                        [w |-> s.fig.w, h |-> s.fig.h],
                                        s.fig.nrows, s.fig.ncols)]
    IN  CHOOSE r \in
            {measure(b, t) :
                b \in {GetBboxesInchGrid(s.fig, axs)},
                t \in {GetTbboxesInchGrid(s.fig, axs, s.eng.colorbars)}} :
            TRUE

ApplyPass ==
    /\ pc = "loop"
    /\ loc.run < cfg.nruns
    /\ \E s \in {ApplyPassBody([fig |-> fig, eng |-> eng, err |-> NoErr], cfg, loc)},
          m \in {PassMeasurement([fig |-> fig, eng |-> eng], cfg)} :
           /\ fig' = s.fig
           /\ eng' = s.eng
           /\ loc' = IF s.err # NoErr THEN [loc EXCEPT !.err = s.err]
                     ELSE [loc EXCEPT !.run = @ + 1,
                                      !.current_margins = m.margins.q,
                                      !.current_colpads = m.colpads.v,
                                      !.current_rowpads = m.rowpads.v]
           /\ pc' = IF s.err # NoErr THEN "finally" ELSE "loop"
    /\ hist' = [hist EXCEPT !.last = "ApplyPass"]
    /\ UNCHANGED <<cfg, probe>>

\* the check of necessary_figwidth after the loop
ApplyCheck_early ==
    /\ pc = "loop"
    /\ loc' = IF FigwidthTooWide(fig.w, cfg.max_figwidth)
              THEN [loc EXCEPT !.err = "ValueError:too_wide"] ELSE loc
    /\ pc' = "finally"
    /\ hist' = [hist EXCEPT !.last = "ApplyCheck"]
    /\ UNCHANGED <<fig, eng, cfg, probe>>

ApplyCheck ==
    /\ pc = "loop"
    /\ ~(loc.run < cfg.nruns)
    /\ loc' = IF FigwidthTooWide(fig.w, cfg.max_figwidth)
              THEN [loc EXCEPT !.err = "ValueError:too_wide"] ELSE loc
    /\ pc' = "finally"
    /\ hist' = [hist EXCEPT !.last = "ApplyCheck"]
    /\ UNCHANGED <<fig, eng, cfg, probe>>

ExecuteFinally_restore ==
    /\ pc = "finally"
    /\ eng' = EngineCleared
    /\ fig' = IF loc.err = NoErr THEN fig ELSE hist.pre
    /\ pc' = "idle"
    /\ hist' = [hist EXCEPT !.last = "ExecuteFinally",
                            !.outcome = IF loc.err = NoErr THEN "returned" ELSE "raised",
                            !.err = loc.err]
    /\ UNCHANGED <<cfg, loc, probe>>

\* the finally clause of execute; the exception, if any, goes on to the caller
ExecuteFinally ==
    /\ pc = "finally"
    /\ eng' = EngineCleared
    /\ pc' = "idle"
    /\ hist' = [hist EXCEPT !.last = "ExecuteFinally",
                            !.outcome = IF loc.err = NoErr THEN "returned" ELSE "raised",
                            !.err = loc.err]
    /\ UNCHANGED <<fig, cfg, loc, probe>>

----------------------------------------------------------------------------
(* Initial states: figures made by plt.subplots(nrows, ncols) with at most *)
(* one colorbar added beside the top-left panel, and engine configurations *)

MaxRows == 3

MaxCols == 3

\* most panels in a grid
MaxCells == 4

MaxRuns == 2

Sides == {"left", "right", "top", "bottom"}

\* panel size, outer offset, colorbar thickness and pad, in length units
Geo == [pw |-> 3600, ph |-> 2400, m0 |-> 1000, cbt |-> 180, cbp |-> 108, cbx |-> 600]

\* gap: initial gap between neighbouring cells; jit: how much the panels of
\* one column (row) differ in position and size; order of fig.get_axes()
GeometryVariants ==
    {[gap |-> 0, jit |-> 0, lab |-> Quadrants(200, 100, 400, 300), order |-> "rowmajor"],
     [gap |-> 700, jit |-> 150, lab |-> Quadrants(100, 0, 300, 500), order |-> "reversed"]}

PanelPos(v, nrows, ncols, r, c, fw, fh) ==
    [x0 |-> Geo.m0 + (c - 1) * (Geo.pw + v.gap) + 2 * v.jit * (r - 1),
     y0 |-> Geo.m0 + (nrows - r) * (Geo.ph + v.gap) + 2 * v.jit * (c - 1),
     width |-> Geo.pw - v.jit * (r - 1),
     height |-> Geo.ph - v.jit * (c - 1),
     fw |-> fw, fh |-> fh]

PanelLab(v, r, c) ==
    LET k == 1 + ((r + c) % 2)
    IN  Quadrants(k * v.lab.top, k * v.lab.right, k * v.lab.bottom, k * v.lab.left)

ColorbarPos(side, par) ==
    IF side = "left" THEN
        [par EXCEPT !.x0 = par.x0 - Geo.cbp - Geo.cbt, !.width = Geo.cbt]
    ELSE IF side = "right" THEN
        [par EXCEPT !.x0 = par.x0 + par.width + Geo.cbp, !.width = Geo.cbt]
    ELSE IF side = "top" THEN
        [par EXCEPT !.y0 = par.y0 + par.height + Geo.cbp, !.height = Geo.cbt]
    ELSE
        [par EXCEPT !.y0 = par.y0 - Geo.cbp - Geo.cbt, !.height = Geo.cbt]

\* a colorbar axes made by hand: Geo.cbx longer than its parent at both ends
LongColorbarPos(side, par) ==
    LET b == ColorbarPos(side, par)
    IN  IF side \in {"left", "right"}
        THEN [b EXCEPT !.y0 = b.y0 - Geo.cbx, !.height = b.height + 2 * Geo.cbx]
        ELSE [b EXCEPT !.x0 = b.x0 - Geo.cbx, !.width = b.width + 2 * Geo.cbx]

\* structure: "grid" is a clean grid, "long_colorbar" a clean grid whose
\* colorbar is longer than its parent; the others spoil the last data axes
\* (or, for "orphan", the colorbar)
MakeFigure(nrows, ncols, v, side, structure) ==
    LET n == nrows * ncols
        fw == 2 * Geo.m0 + ncols * (Geo.pw + v.gap) + 2 * v.jit * nrows
        fh == 2 * Geo.m0 + nrows * (Geo.ph + v.gap) + 2 * v.jit * ncols
        cell(i) == IF v.order = "rowmajor" THEN i ELSE n + 1 - i
        row(i) == ((cell(i) - 1) \div ncols) + 1
        col(i) == ((cell(i) - 1) % ncols) + 1
        num(i) == cell(i) - 1
        spec(i) ==
            IF i < n \/ structure \in {"grid", "orphan", "long_colorbar"}
            THEN [gs |-> 1, num1 |-> num(i), num2 |-> num(i)]
            ELSE IF structure = "no_subplotspec" THEN NoSubplotSpec
            ELSE IF structure = "two_gridspecs"
            THEN [gs |-> 2, num1 |-> num(i), num2 |-> num(i)]
            ELSE [gs |-> 1, num1 |-> num(i), num2 |-> num(i) + 1]
        data(i) ==
            [cb |-> FALSE, ss |-> spec(i),
             pos |-> PanelPos(v, nrows, ncols, row(i), col(i), fw, fh),
             lab |-> PanelLab(v, row(i), col(i)), parent |-> 0]
        topleft == CHOOSE i \in 1..n : cell(i) = 1
        cbar ==
            [cb |-> TRUE, ss |-> NoSubplotSpec,
             pos |-> IF structure = "long_colorbar"
                     THEN LongColorbarPos(side, data(topleft).pos)
                     ELSE ColorbarPos(side, data(topleft).pos),
             lab |-> Quadrants(50, 250, 50, 50),
             parent |-> IF structure = "orphan" THEN 0 ELSE topleft]
    IN  [w |-> fw, h |-> fh, nrows |-> nrows, ncols |-> ncols,
         layout_engine |-> "FixedAxesLayoutEngine",
         axes |-> IF side = "none" THEN [i \in 1..n |-> data(i)]
                  ELSE [i \in 1..(n + 1) |-> IF i <= n THEN data(i) ELSE cbar]]

Structures(nrows, ncols, side) ==
    {"grid", "no_subplotspec", "span"}
        \cup (IF nrows * ncols > 1 THEN {"two_gridspecs"} ELSE {})
        \cup (IF side # "none" THEN {"orphan", "long_colorbar"} ELSE {})

Inf == [inf |-> TRUE, v |-> 0]

\* numpy.inf, 0.604167 inch and 0.56944 inch
MaxFigwidths == {Inf, [inf |-> FALSE, v |-> 604167], [inf |-> FALSE, v |-> 569440]}

MarginProfiles ==
    {[pts |-> Scalar(3), ign |-> Scalar(FALSE)],
     [pts |-> Vector(<<1, 2, 4, 3>>), ign |-> Vector(<<TRUE, FALSE, FALSE, TRUE>>)]}

BadMarginProfiles ==
    {[pts |-> Vector(<<>>), ign |-> Scalar(FALSE)],
     [pts |-> Scalar(3), ign |-> Vector(<<TRUE, FALSE, TRUE, FALSE, TRUE>>)]}

PadKinds == {"scalar", "scalar_ign", "seq_ign", "seq_ign_long", "seq", "seq_short"}

\* pad arguments for a grid with n columns (rows): a scalar, sequences of
\* length n - 1 and n - 2, and label flags as scalar or sequence
PadProfile(kind, n) ==
    IF kind = "scalar" THEN [pts |-> Scalar(10), ign |-> Scalar(FALSE)]
    ELSE IF kind = "scalar_ign" THEN [pts |-> Scalar(10), ign |-> Scalar(TRUE)]
    ELSE IF kind = "seq_ign"
    THEN [pts |-> Scalar(10), ign |-> Vector([k \in 1..(n - 1) |-> k % 2 = 1])]
    ELSE IF kind = "seq_ign_long"
    THEN [pts |-> Scalar(10), ign |-> Vector([k \in 1..n |-> TRUE])]
    ELSE IF kind = "seq"
    THEN [pts |-> Vector([k \in 1..(n - 1) |-> 4 + 2 * k]), ign |-> Scalar(FALSE)]
    ELSE [pts |-> Vector([k \in 1..(n - 2) |-> 7]), ign |-> Scalar(FALSE)]

MakeConfig(m, cp, rp, maxw, nruns) ==
    [margin_pad_pts |-> m.pts, margin_pad_ignores_labels |-> m.ign,
     col_pad_pts |-> cp.pts, col_pad_ignores_labels |-> cp.ign,
     row_pad_pts |-> rp.pts, row_pad_ignores_labels |-> rp.ign,
     max_figwidth |-> maxw, nruns |-> nruns]

DefaultConfig ==
    MakeConfig([pts |-> Scalar(3), ign |-> Scalar(FALSE)],
               PadProfile("scalar", 1), PadProfile("scalar", 1), Inf, MaxRuns)

\* one kind of pad argument is used for the columns and for the rows; the
\* malformed margin arguments come with the default pads only
Configs(nrows, ncols) ==
    {MakeConfig(m, PadProfile(kind, ncols), PadProfile(kind, nrows), maxw, nruns) :
        m \in MarginProfiles, kind \in PadKinds, maxw \in MaxFigwidths,
        nruns \in 0..MaxRuns}
    \cup {MakeConfig(m, PadProfile("scalar", ncols), PadProfile("scalar", nrows),
                     Inf, MaxRuns) : m \in BadMarginProfiles}
    \cup {MakeConfig(m, PadProfile("scalar", ncols), PadProfile("scalar", nrows),
                     maxw, 0 - 1) : m \in MarginProfiles, maxw \in MaxFigwidths}

NoProbe == [op |-> "none"]

Init ==
    /\ \E nrows \in 1..MaxRows, ncols \in 1..MaxCols, v \in GeometryVariants,
          side \in Sides \cup {"none"} :
          \E structure \in Structures(nrows, ncols, side), c \in Configs(nrows, ncols) :
              /\ nrows * ncols <= MaxCells
              /\ structure # "grid" => c = DefaultConfig
              /\ fig = MakeFigure(nrows, ncols, v, side, structure)
              /\ cfg = c
    /\ eng = EngineCleared
    /\ pc = "idle"
    /\ loc = LocInit
    /\ hist = Observe("Init", fig, "none", NoErr)
    /\ probe = NoProbe

Next ==
    \/ Execute
    \/ NestedExecute
    \/ ApplyNormalize
    \/ ApplyPass
    \/ ApplyCheck
    \/ ExecuteFinally

Spec == Init /\ [][Next]_vars

\* the statements of a running execute: the interpreter goes on to the next
\* one, while nobody has to call execute again
Running ==
    \/ NestedExecute
    \/ ApplyNormalize
    \/ ApplyPass
    \/ ApplyCheck
    \/ ExecuteFinally

\* configurations with every number of passes from -1 to MaxRuns, with and
\* without a width limit, with pads that fit the grid and pads that do not,
\* with margins per side; the default configuration has scalar margins
FairConfigs(nrows, ncols) ==
    {MakeConfig(m, PadProfile(kind, ncols), PadProfile(kind, nrows), maxw, nruns) :
        m \in {x \in MarginProfiles : x.pts.ndim # 0}, kind \in {"scalar", "seq_short"},
        maxw \in {Inf, [inf |-> FALSE, v |-> 569440]}, nruns \in (0 - 1)..MaxRuns}
    \cup {DefaultConfig}

InitFair ==
    /\ \E nrows \in 1..MaxRows, ncols \in 1..MaxCols, v \in GeometryVariants,
          side \in Sides \cup {"none"} :
          \E structure \in Structures(nrows, ncols, side), c \in FairConfigs(nrows, ncols) :
              /\ nrows * ncols <= MaxCells
              /\ structure # "grid" => c = DefaultConfig
              /\ fig = MakeFigure(nrows, ncols, v, side, structure)
              /\ cfg = c
    /\ eng = EngineCleared
    /\ pc = "idle"
    /\ loc = LocInit
    /\ hist = Observe("Init", fig, "none", NoErr)
    /\ probe = NoProbe

FairSpec == InitFair /\ [][Next]_vars /\ WF_vars(Running)

----------------------------------------------------------------------------
(* Pure functions on their own: Init draws an input, the action applies    *)
(* the function to it.  The engine stays idle.                             *)

MaxArgLen == 5

MaxAxes == 4

ArgValues == {3, 5, 8}

SeqsUpTo(S, n) == UNION {[1..k -> S] : k \in 0..n}

MarginslikeInputs ==
    {Scalar(x) : x \in ArgValues} \cup {Vector(q) : q \in SeqsUpTo(ArgValues, MaxArgLen)}

\* fraction boxes over a 100 x 100 and over a 200 x 100 figure
LocationInputs ==
    {[cax |-> [x0 |-> cx - 5, y0 |-> cy - 10, width |-> 10, height |-> 20,
               fw |-> fw, fh |-> 100],
      parent |-> [x0 |-> 50 - pw \div 2, y0 |-> 30, width |-> pw, height |-> 40,
                  fw |-> fw, fh |-> 100]] :
        cx \in {10, 30, 50, 70, 90, 130}, cy \in {10, 30, 50, 70, 90},
        pw \in {20, 40}, fw \in {100, 200}}

\* a figure given by its structure alone: data axes in the cells nums[i] of one
\* gridspec, then ncb colorbar axes
StructureOnly(nrows, ncols, nums, ncb) ==
    LET n == Len(nums)
        box == [x0 |-> 0, y0 |-> 0, width |-> 1, height |-> 1, fw |-> 1, fh |-> 1]
    IN  [w |-> 1, h |-> 1, nrows |-> nrows, ncols |-> ncols,
         layout_engine |-> "FixedAxesLayoutEngine",
         axes |-> [i \in 1..(n + ncb) |->
            IF i <= n
            THEN [cb |-> FALSE, ss |-> [gs |-> 1, num1 |-> nums[i], num2 |-> nums[i]],
                  pos |-> box, lab |-> Quadrants(0, 0, 0, 0), parent |-> 0]
            ELSE [cb |-> TRUE, ss |-> NoSubplotSpec, pos |-> box,
                  lab |-> Quadrants(0, 0, 0, 0), parent |-> 1]]]

GridShapes == {x \in (1..MaxRows) \X (1..MaxCols) : x[1] * x[2] <= MaxCells}

\* the figures of shape sh
GridInputs(sh) ==
    {StructureOnly(sh[1], sh[2], nums, ncb) :
        nums \in UNION {[1..k -> 0..(sh[1] * sh[2] - 1)] : k \in 1..MaxAxes},
        ncb \in 0..1}

ArithOps == {"+", "-", "*", "/", "//"}

\* instances and scalars with components of both signs, none of them zero
ArithInstances(cls) ==
    IF cls = "Quadrants"
    THEN {Instance(cls, <<6, 0 - 3, 2, 7>>), Instance(cls, <<0 - 4, 5, 5, 1>>)}
    ELSE {Instance(cls, <<6, 0 - 3>>), Instance(cls, <<2, 7>>)}

ArithScalars == {Number(2), Number(0 - 3)}

\* the expressions q op r, q op s, s op q and -q
ArithInputs ==
    UNION {{[name |-> op, left |-> q, right |-> r] :
                op \in ArithOps, q \in ArithInstances(cls),
                r \in ArithInstances(cls) \cup ArithScalars}
           \cup {[name |-> op, left |-> x, right |-> q] :
                op \in ArithOps, x \in ArithScalars, q \in ArithInstances(cls)}
           \cup {[name |-> "neg", left |-> q, right |-> q] : q \in ArithInstances(cls)} :
        cls \in {"Quadrants", "Area"}}

InitPure ==
    /\ fig = MakeFigure(1, 1, CHOOSE v \in GeometryVariants : v.gap = 0, "none", "grid")
    /\ cfg = DefaultConfig
    /\ eng = EngineCleared
    /\ pc = "idle"
    /\ loc = LocInit
    /\ hist = Observe("Init", fig, "none", NoErr)
    /\ \/ \E a \in MarginslikeInputs :
            probe = [op |-> "marginslike", in |-> a, done |-> FALSE, out |-> <<>>]
       \/ \E a \in LocationInputs :
            probe = [op |-> "location", in |-> a, done |-> FALSE, out |-> <<>>]
       \/ \E sh \in GridShapes : \E a \in GridInputs(sh) :
            probe = [op |-> "grid", in |-> a, done |-> FALSE, out |-> <<>>]
       \/ \E a \in ArithInputs :
            probe = [op |-> "arith", in |-> a, done |-> FALSE, out |-> <<>>]

CallProcessMarginslikeArg ==
    /\ probe.op = "marginslike" /\ ~probe.done
    /\ probe' = [probe EXCEPT !.done = TRUE, !.out = ProcessMarginslikeArg(probe.in)]
    /\ UNCHANGED <<fig, eng, cfg, pc, loc, hist>>

CallGetColorbarLocation ==
    /\ probe.op = "location" /\ ~probe.done
    /\ probe' = [probe EXCEPT !.done = TRUE,
                              !.out = GetColorbarLocation(probe.in.cax, probe.in.parent)]
    /\ UNCHANGED <<fig, eng, cfg, pc, loc, hist>>

CallGetSortedAxesGrid ==
    /\ probe.op = "grid" /\ ~probe.done
    /\ probe' = [probe EXCEPT !.done = TRUE, !.out = GetSortedAxesGrid(probe.in)]
    /\ UNCHANGED <<fig, eng, cfg, pc, loc, hist>>

\* evaluates the expression; the operands stay in probe.in
CallArithmetic ==
    /\ probe.op = "arith" /\ ~probe.done
    /\ probe' = [probe EXCEPT !.done = TRUE,
                              !.out = IF probe.in.name = "neg"
                                      THEN Method("__neg__", probe.in.left, probe.in.left)
                                      ELSE BinaryOp(probe.in.name, probe.in.left,
                                                    probe.in.right)]
    /\ UNCHANGED <<fig, eng, cfg, pc, loc, hist>>

NextPure ==
    \/ CallProcessMarginslikeArg
    \/ CallGetColorbarLocation
    \/ CallGetSortedAxesGrid
    \/ CallArithmetic

SpecPure == InitPure /\ [][NextPure]_vars

----------------------------------------------------------------------------
(* The public functions.  Each works on s = [fig, eng, err] and returns    *)
(* [fig, eng, err, out]: the figure and engine fields after the call, the  *)
(* exception raised (NoErr when none) and the value returned.  The public  *)
(* function keeps its Python name; the engine method it forwards to has    *)
(* the name in capitals.  Points returned to the caller are counted in     *)
(* hundredths of a point.                                                  *)

ValidateAndGetLayoutEngine_anyengine(f) == NoErr

\* _validate_and_get_layout_engine: isinstance(engine, FixedAxesLayoutEngine)
ValidateAndGetLayoutEngine(f) ==
    IF f.layout_engine = "FixedAxesLayoutEngine" THEN NoErr
    ELSE "TypeError:layout_engine"

NoOut == <<>>

Returned(s, out) == [fig |-> s.fig, eng |-> s.eng, err |-> NoErr, out |-> out]

Raised(s, err) == [fig |-> s.fig, eng |-> s.eng, err |-> err, out |-> NoOut]

\* the outcome t = [fig, eng, err] of a method that returns None
Completed(t) == [fig |-> t.fig, eng |-> t.eng, err |-> t.err, out |-> NoOut]

\* "engine = _validate_and_get_layout_engine(fig); return engine._method(...)"
Validated(s, r) ==
    IF ValidateAndGetLayoutEngine(s.fig) # NoErr
    THEN Raised(s, ValidateAndGetLayoutEngine(s.fig))
    ELSE r

\* x * PTS_PER_INCH for x in length units
PtsFromInch(u) == (u * PTS_PER_INCH * 100) \div UNITS_PER_INCH

QPtsFromInch(q) ==
    Quadrants(PtsFromInch(q.top), PtsFromInch(q.right),
              PtsFromInch(q.bottom), PtsFromInch(q.left))

\* "self._get_sorted_axes_grid(fig) if self._axes_grid is None else
\* self._axes_grid"
AxesGridOrCache(s) ==
    IF s.eng.axes_grid.isNone THEN GetSortedAxesGrid(s.fig)
    ELSE [err |-> NoErr, grid |-> s.eng.axes_grid]

\* the colorbar records _get_axes_tightbbox_inch uses
ColorbarsOrScan(s) ==
    IF s.eng.execute_in_progress THEN [err |-> NoErr, list |-> s.eng.colorbars]
    ELSE GetListOfColorbars(s.fig)

\* axs, bboxes and tbboxes as the pad and margin queries compute them
MeasureGrid(s) ==
    LET boxes(g, cb) ==
            IF g.err # NoErr THEN [err |-> g.err]
            ELSE IF cb.err # NoErr THEN [err |-> cb.err]
            ELSE CHOOSE r \in
                    {[err |-> NoErr, axs |-> g.grid.cells, bboxes |-> b, tbboxes |-> t] :
                        b \in {GetBboxesInchGrid(s.fig, g.grid.cells)},
                        t \in {GetTbboxesInchGrid(s.fig, g.grid.cells, cb.list)}} :
                    TRUE
    IN  CHOOSE r \in
            {boxes(g, cb) : g \in {AxesGridOrCache(s)}, cb \in {ColorbarsOrScan(s)}} :
            TRUE

GetMarginsPts(s, ignore_labels) ==
    LET answer(m) ==
            IF m.err # NoErr THEN Raised(s, m.err)
            ELSE CHOOSE r \in
                    {IF q.err # NoErr THEN Raised(s, q.err)
                     ELSE Returned(s, QPtsFromInch(q.q)) :
                        q \in {GetMarginsInch(ignore_labels, m.bboxes, m.tbboxes,
                                   [w |-> s.fig.w, h |-> s.fig.h],
                                   s.fig.nrows, s.fig.ncols)}} :
                    TRUE
    IN  CHOOSE r \in {answer(m) : m \in {MeasureGrid(s)}} : TRUE

get_margins_pts(s, ignore_labels) == Validated(s, GetMarginsPts(s, ignore_labels))

GetColumnPadPts_rightfirst(s, icol, ignore_labels) ==
    LET answer(m) ==
            IF m.err # NoErr THEN Raised(s, m.err)
            ELSE IF 0 < icol /\ icol < s.fig.ncols THEN
                CHOOSE r \in
                    {Returned(s, PtsFromInch(pads_inch.v[icol])) :
                        pads_inch \in {GetColpadsInch(s.fig.nrows, s.fig.ncols,
                                           Scalar(ignore_labels), m.bboxes, m.tbboxes)}} :
                    TRUE
            ELSE
                CHOOSE r \in
                    {Returned(s, PtsFromInch(IF icol = 0 THEN pads_inch.q.right
                                             ELSE pads_inch.q.left)) :
                        pads_inch \in {GetMarginsInch(Scalar(ignore_labels),
                                           m.bboxes, m.tbboxes,
                                           [w |-> s.fig.w, h |-> s.fig.h],
                                           s.fig.nrows, s.fig.ncols)}} :
                    TRUE
    IN  CHOOSE r \in {answer(m) : m \in {MeasureGrid(s)}} : TRUE

\* icol counts from 0; pads_inch[icol - 1] is entry icol of the 1-based pads
GetColumnPadPts(s, icol, ignore_labels) ==
    LET answer(m) ==
            IF m.err # NoErr THEN Raised(s, m.err)
            ELSE IF 0 < icol /\ icol < s.fig.ncols THEN
                CHOOSE r \in
                    {Returned(s, PtsFromInch(pads_inch.v[icol])) :
                        pads_inch \in {GetColpadsInch(s.fig.nrows, s.fig.ncols,
                                           Scalar(ignore_labels), m.bboxes, m.tbboxes)}} :
                    TRUE
            ELSE
                CHOOSE r \in
                    {Returned(s, PtsFromInch(IF icol = 0 THEN pads_inch.q.left
                                             ELSE pads_inch.q.right)) :
                        pads_inch \in {GetMarginsInch(Scalar(ignore_labels),
                                           m.bboxes, m.tbboxes,
                                           [w |-> s.fig.w, h |-> s.fig.h],
                                           s.fig.nrows, s.fig.ncols)}} :
                    TRUE
    IN  CHOOSE r \in {answer(m) : m \in {MeasureGrid(s)}} : TRUE

get_column_pad_pts(s, icol, ignore_labels) ==
    Validated(s, GetColumnPadPts(s, icol, ignore_labels))

GetRowPadPts(s, irow, ignore_labels) ==
    LET answer(m) ==
            IF m.err # NoErr THEN Raised(s, m.err)
            ELSE IF 0 < irow /\ irow < s.fig.nrows THEN
                CHOOSE r \in
                    {Returned(s, PtsFromInch(pads_inch.v[irow])) :
                        pads_inch \in {GetRowpadsInch(s.fig.nrows, s.fig.ncols,
                                           Scalar(ignore_labels), m.bboxes, m.tbboxes)}} :
                    TRUE
            ELSE
                CHOOSE r \in
                    {Returned(s, PtsFromInch(IF irow = 0 THEN pads_inch.q.top
                                             ELSE pads_inch.q.bottom)) :
                        pads_inch \in {GetMarginsInch(Scalar(ignore_labels),
                                           m.bboxes, m.tbboxes,
                                           [w |-> s.fig.w, h |-> s.fig.h],
                                           s.fig.nrows, s.fig.ncols)}} :
                    TRUE
    IN  CHOOSE r \in {answer(m) : m \in {MeasureGrid(s)}} : TRUE

get_row_pad_pts(s, irow, ignore_labels) ==
    Validated(s, GetRowPadPts(s, irow, ignore_labels))

\* axs, then old_bboxes, then the margins argument
AddMarginsPts(s, margins_pts) ==
    LET go(g, margins) ==
            IF g.err # NoErr THEN Raised(s, g.err)
            ELSE IF margins.err # NoErr THEN Raised(s, margins.err)
            ELSE CHOOSE r \in
                    {Completed(t) :
                        t \in {AddMarginsInch(s, QInchFromPts(margins.q), g.grid.cells,
                                   GetBboxesInchGrid(s.fig, g.grid.cells),
                                   s.fig.nrows, s.fig.ncols)}} : TRUE
    IN  CHOOSE r \in
            {go(g, margins) : g \in {AxesGridOrCache(s)},
                              margins \in {ProcessMarginslikeArg(margins_pts)}} : TRUE

add_margins_pts(s, margins_pts) == Validated(s, AddMarginsPts(s, margins_pts))

AddColumnPadPts(s, icol, pad_pts) ==
    LET go(g) ==
            IF g.err # NoErr THEN Raised(s, g.err)
            ELSE CHOOSE r \in
                    {Completed(t) :
                        t \in {AddColpadInch(s, icol, InchFromPts(pad_pts), g.grid.cells,
                                   GetBboxesInchGrid(s.fig, g.grid.cells),
                                   s.fig.nrows, s.fig.ncols)}} : TRUE
    IN  CHOOSE r \in {go(g) : g \in {AxesGridOrCache(s)}} : TRUE

add_column_pad_pts(s, icol, pad_pts) == Validated(s, AddColumnPadPts(s, icol, pad_pts))

AddRowPadPts(s, irow, pad_pts) ==
    LET go(g) ==
            IF g.err # NoErr THEN Raised(s, g.err)
            ELSE CHOOSE r \in
                    {Completed(t) :
                        t \in {AddRowpadInch(s, irow, InchFromPts(pad_pts), g.grid.cells,
                                   GetBboxesInchGrid(s.fig, g.grid.cells),
                                   s.fig.nrows, s.fig.ncols)}} : TRUE
    IN  CHOOSE r \in {go(g) : g \in {AxesGridOrCache(s)}} : TRUE

add_row_pad_pts(s, irow, pad_pts) == Validated(s, AddRowPadPts(s, irow, pad_pts))

get_axes_size_inches(s, ax) == Validated(s, Returned(s, GetAxesSizeInches(s.fig, ax)))

get_axes_position_inch(s, ax) == Validated(s, Returned(s, GetAxesPositionInch(s.fig, ax)))

set_axes_position_inch(s, ax, x0_inch, y0_inch, width_inch, height_inch) ==
    Validated(s,
        [fig |-> SetAxesPositionInch(s.fig, ax, x0_inch, y0_inch, width_inch, height_inch),
         eng |-> s.eng, err |-> NoErr, out |-> NoOut])

EngineGetAxesTightbboxInch_keepscan(s, ax) ==
    CHOOSE r \in
        {IF cb.err # NoErr THEN Raised(s, cb.err)
         ELSE [fig |-> s.fig, eng |-> [s.eng EXCEPT !.colorbars = cb.list],
               err |-> NoErr, out |-> GetAxesTightbboxInch(s.fig, ax, cb.list)] :
            cb \in {ColorbarsOrScan(s)}} : TRUE

\* neither the scan nor anything else is kept
EngineGetAxesTightbboxInch(s, ax) ==
    CHOOSE r \in
        {IF cb.err # NoErr THEN Raised(s, cb.err)
         ELSE Returned(s, GetAxesTightbboxInch(s.fig, ax, cb.list)) :
            cb \in {ColorbarsOrScan(s)}} : TRUE

get_axes_tightbbox_inch(s, ax) == Validated(s, EngineGetAxesTightbboxInch(s, ax))

\* Quadrants(t.y1 - b.y1, t.x1 - b.x1, b.y0 - t.y0, b.x0 - t.x0)
GetAxesMarginsInches(s, ax) ==
    LET margins(b, t) ==
            Quadrants(t.y1 - b.y1, t.x1 - b.x1, b.y0 - t.y0, b.x0 - t.x0)
        go(cb) ==
            IF cb.err # NoErr THEN Raised(s, cb.err)
            ELSE CHOOSE r \in
                    {Returned(s, margins(b, t)) :
                        b \in {GetAxesPositionInch(s.fig, ax)},
                        t \in {GetAxesTightbboxInch(s.fig, ax, cb.list)}} : TRUE
    IN  CHOOSE r \in {go(cb) : cb \in {ColorbarsOrScan(s)}} : TRUE

get_axes_margins_inches(s, ax) == Validated(s, GetAxesMarginsInches(s, ax))

\* the end of _set_axes_size_inches and of the align methods: scan the
\* colorbars unless a solve is running, ax.set_position(pos),
\* _update_colorbars(), drop the scan
SetPositionAndUpdateColorbars(s, ax, pos) ==
    LET go(scan, p) ==
            IF scan.err # NoErr THEN Raised(s, scan.err)
            ELSE [fig |-> UpdateColorbars([s.fig EXCEPT !.axes[ax].pos = p], scan.list,
                                          s.fig.w, s.fig.h),
                  eng |-> IF s.eng.execute_in_progress THEN s.eng
                          ELSE [s.eng EXCEPT !.colorbars = <<>>],
                  err |-> NoErr, out |-> NoOut]
    IN  CHOOSE r \in {go(scan, p) : scan \in {ColorbarsOrScan(s)}, p \in {pos}} : TRUE

\* aspect is "auto" or the ratio num / den
Auto == [auto |-> TRUE, num |-> 0, den |-> 1]

Ratio(num, den) == [auto |-> FALSE, num |-> num, den |-> den]

\* An anchor is given by the words of the string, so anchor.split() is the
\* anchor itself once the one-word shorthands are written out.
AnchorSplit(anchor) ==
    IF anchor = <<"center">> THEN <<"center", "center">>
    ELSE IF anchor = <<"left">> THEN <<"center", "left">>
    ELSE IF anchor = <<"right">> THEN <<"center", "right">>
    ELSE IF anchor = <<"upper">> THEN <<"upper", "center">>
    ELSE IF anchor = <<"lower">> THEN <<"lower", "center">>
    ELSE anchor

\* size_inch is Scalar(width) or Vector(<<width, height>>)
NewSizeInch_ignoreaspect(size_inch, aspect) ==
    IF size_inch.ndim = 0 THEN
        [err |-> NoErr, width |-> size_inch.v[1],
         height |-> IF aspect.auto THEN size_inch.v[1]
                    ELSE (size_inch.v[1] * aspect.num) \div aspect.den]
    ELSE [err |-> NoErr, width |-> size_inch.v[1], height |-> size_inch.v[2]]

NewSizeInch(size_inch, aspect) ==
    IF size_inch.ndim = 0 THEN
        [err |-> NoErr, width |-> size_inch.v[1],
         height |-> IF aspect.auto THEN size_inch.v[1]
                    ELSE (size_inch.v[1] * aspect.num) \div aspect.den]
    ELSE IF ~aspect.auto /\ size_inch.v[2] * aspect.den # aspect.num * size_inch.v[1]
    THEN [err |-> "ValueError:size_aspect", width |-> 0, height |-> 0]
    ELSE [err |-> NoErr, width |-> size_inch.v[1], height |-> size_inch.v[2]]

\* the position for the new size: a word that is none of the three known
\* ones leaves the coordinate as it is
AnchoredPosition_lowerleft(old_pos, new_size_inch, anchor_split) ==
    [x0 |-> old_pos.x0, y0 |-> old_pos.y0,
     width |-> new_size_inch.width, height |-> new_size_inch.height,
     fw |-> old_pos.fw, fh |-> old_pos.fh]

AnchoredPosition(old_pos, new_size_inch, anchor_split) ==
    [x0 |-> IF anchor_split[2] = "right"
            THEN old_pos.x0 + (old_pos.width - new_size_inch.width)
            ELSE IF anchor_split[2] = "center"
            THEN old_pos.x0 + (old_pos.width - new_size_inch.width) \div 2
            ELSE old_pos.x0,
     y0 |-> IF anchor_split[1] = "upper"
            THEN old_pos.y0 + (old_pos.height - new_size_inch.height)
            ELSE IF anchor_split[1] = "center"
            THEN old_pos.y0 + (old_pos.height - new_size_inch.height) \div 2
            ELSE old_pos.y0,
     width |-> new_size_inch.width, height |-> new_size_inch.height,
     fw |-> old_pos.fw, fh |-> old_pos.fh]

SetAxesSizeInches(s, size_inch, aspect, ax, anchor) ==
    LET new_size_inch == NewSizeInch(size_inch, aspect)
        old_pos == GetPosition(s.fig, ax)
        anchor_split == AnchorSplit(anchor)
    IN  IF new_size_inch.err # NoErr THEN Raised(s, new_size_inch.err)
        ELSE IF Len(anchor_split) < 2 THEN Raised(s, "IndexError:anchor_split")
        ELSE SetPositionAndUpdateColorbars(s, ax,
                AnchoredPosition(old_pos, new_size_inch, anchor_split))

set_axes_size_inches(s, size_inch, aspect, ax, anchor) ==
    Validated(s, SetAxesSizeInches(s, size_inch, aspect, ax, anchor))

AlignAxesVertically_refmoves(s, ax, reference_ax, alignment) ==
    LET bbox_ax == GetPosition(s.fig, ax)
        bbox_ref == GetPosition(s.fig, reference_ax)
        y0 == IF alignment = "center"
              THEN bbox_ax.y0 + (bbox_ax.height - bbox_ref.height) \div 2
              ELSE IF alignment = "top"
              THEN bbox_ax.y0 + bbox_ax.height - bbox_ref.height
              ELSE bbox_ax.y0
    IN  IF alignment \notin {"center", "top", "bottom"}
        THEN Raised(s, "ValueError:alignment")
        ELSE SetPositionAndUpdateColorbars(s, reference_ax, [bbox_ref EXCEPT !.y0 = y0])

AlignAxesVertically(s, ax, reference_ax, alignment) ==
    LET bbox_ax == GetPosition(s.fig, ax)
        bbox_ref == GetPosition(s.fig, reference_ax)
        y0 == IF alignment = "center"
              THEN bbox_ref.y0 + (bbox_ref.height - bbox_ax.height) \div 2
              ELSE IF alignment = "top"
              THEN bbox_ref.y0 + bbox_ref.height - bbox_ax.height
              ELSE bbox_ref.y0
    IN  IF alignment \notin {"center", "top", "bottom"}
        THEN Raised(s, "ValueError:alignment")
        ELSE SetPositionAndUpdateColorbars(s, ax, [bbox_ax EXCEPT !.y0 = y0])

align_axes_vertically(s, ax, reference_ax, alignment) ==
    Validated(s, AlignAxesVertically(s, ax, reference_ax, alignment))

AlignAxesHorizontally(s, ax, reference_ax, alignment) ==
    LET bbox_ax == GetPosition(s.fig, ax)
        bbox_ref == GetPosition(s.fig, reference_ax)
        x0 == IF alignment = "center"
              THEN bbox_ref.x0 + (bbox_ref.width - bbox_ax.width) \div 2
              ELSE IF alignment = "right"
              THEN bbox_ref.x0 + bbox_ref.width - bbox_ax.width
              ELSE bbox_ref.x0
    IN  IF alignment \notin {"center", "left", "right"}
        THEN Raised(s, "ValueError:alignment")
        ELSE SetPositionAndUpdateColorbars(s, ax, [bbox_ax EXCEPT !.x0 = x0])

align_axes_horizontally(s, ax, reference_ax, alignment) ==
    Validated(s, AlignAxesHorizontally(s, ax, reference_ax, alignment))

\* DEFAULT_THICKNESS = 0.05 and DEFAULT_PAD = 0.6, in percent
DEFAULT_THICKNESS == 5

DEFAULT_PAD == 60

\* an optional argument: None, or a value
None == [isNone |-> TRUE, v |-> 0]

Some(x) == [isNone |-> FALSE, v |-> x]

\* what the renderer draws around a new colorbar axes
ColorbarLab == Quadrants(50, 250, 50, 50)

\* the box of the new colorbar axes, a fraction box over the figure size
NewColorbarPosition_padofdefault(bbox, location, thickness_pts, pad_pts) ==
    LET bbox_size == IF location \in {"left", "right"} THEN bbox.width ELSE bbox.height
        thickness == IF thickness_pts.isNone THEN (bbox_size * DEFAULT_THICKNESS) \div 100
                     ELSE InchFromPts(thickness_pts.v)
        pad == IF pad_pts.isNone
               THEN (((bbox_size * DEFAULT_THICKNESS) \div 100) * DEFAULT_PAD) \div 100
               ELSE InchFromPts(pad_pts.v)
    IN  IF location = "left" THEN
            [bbox EXCEPT !.x0 = bbox.x0 - pad - thickness, !.width = thickness]
        ELSE IF location = "right" THEN
            [bbox EXCEPT !.x0 = bbox.x0 + bbox.width + pad, !.width = thickness]
        ELSE IF location = "top" THEN
            [bbox EXCEPT !.y0 = bbox.y0 + bbox.height + pad, !.height = thickness]
        ELSE
            [bbox EXCEPT !.y0 = bbox.y0 - pad - thickness, !.height = thickness]

NewColorbarPosition(bbox, location, thickness_pts, pad_pts) ==
    LET bbox_size == IF location \in {"left", "right"} THEN bbox.width ELSE bbox.height
        thickness == IF thickness_pts.isNone THEN (bbox_size * DEFAULT_THICKNESS) \div 100
                     ELSE InchFromPts(thickness_pts.v)
        pad == IF pad_pts.isNone THEN (thickness * DEFAULT_PAD) \div 100
               ELSE InchFromPts(pad_pts.v)
    IN  IF location = "left" THEN
            [bbox EXCEPT !.x0 = bbox.x0 - pad - thickness, !.width = thickness]
        ELSE IF location = "right" THEN
            [bbox EXCEPT !.x0 = bbox.x0 + bbox.width + pad, !.width = thickness]
        ELSE IF location = "top" THEN
            [bbox EXCEPT !.y0 = bbox.y0 + bbox.height + pad, !.height = thickness]
        ELSE
            [bbox EXCEPT !.y0 = bbox.y0 - pad - thickness, !.height = thickness]

\* the mappable is drawn in ax, which becomes the parent of the new axes; the
\* layout engine of the figure is not asked for
add_colorbar(s, ax, location, thickness_pts, pad_pts) ==
    IF location \notin {"left", "right", "top", "bottom"}
    THEN Raised(s, "ValueError:location")
    ELSE [fig |-> [s.fig EXCEPT !.axes = Append(@,
                    [cb |-> TRUE, ss |-> NoSubplotSpec,
                     pos |-> NewColorbarPosition(GetPosition(s.fig, ax), location,
                                                 thickness_pts, pad_pts),
                     lab |-> ColorbarLab, parent |-> ax])],
          eng |-> s.eng, err |-> NoErr, out |-> Len(s.fig.axes) + 1]

----------------------------------------------------------------------------
(* Calls of the public functions on an idle engine, one action per         *)
(* function.  probe counts the calls and keeps what the caller passed and  *)
(* got back; hist.pre is the figure before the last call.  A run is either *)
(* a "sequence" of up to MaxOps calls with few argument values, or a       *)
(* "single" call with many, or a "solve" during which one query is made,    *)
(* or one query ("measure") about a figure with a hand-made colorbar.       *)

MaxOps == 2

Here == [fig |-> fig, eng |-> eng, err |-> NoErr]

FirstCall == [op |-> "none", args |-> <<>>, pre |-> <<>>, outcome |-> "none"]

\* att[a]: the side, thickness and pad colorbar axes a was attached with
ApiProbe(mode, att) ==
    [op |-> "api", mode |-> mode, n |-> 0, args |-> <<>>, out |-> NoOut,
     pre_eng |-> EngineCleared, prev |-> FirstCall, att |-> att]

CanCall ==
    /\ probe.op = "api"
    /\ pc = "idle"
    /\ probe.mode \in {"sequence", "single"}
    /\ probe.n < (IF probe.mode = "sequence" THEN MaxOps ELSE 1)

\* a query is also made from inside a solve, between two of its steps
CanQuery ==
    \/ CanCall
    \/ probe.op = "api" /\ probe.mode = "solve" /\ pc # "idle" /\ probe.n = 1
    \/ probe.op = "api" /\ probe.mode = "measure" /\ pc = "idle" /\ probe.n = 0

CanExecute ==
    \/ CanCall
    \/ probe.op = "api" /\ probe.mode = "solve" /\ pc = "idle" /\ probe.n = 0

Counted(args, out, att) ==
    [probe EXCEPT !.n = @ + 1, !.args = args, !.out = out, !.pre_eng = eng,
                  !.att = att,
                  !.prev = [op |-> hist.last, args |-> probe.args, pre |-> hist.pre,
                            outcome |-> hist.outcome]]

\* the call name(args) with result r
Call(name, args, r) ==
    /\ fig' = r.fig
    /\ eng' = r.eng
    /\ hist' = Observe(name, fig, IF r.err = NoErr THEN "returned" ELSE "raised", r.err)
    /\ probe' = Counted(args, r.out, probe.att)
    /\ UNCHANGED <<cfg, pc, loc>>

\* the axes a call is tried on: the first and the last panel of
\* fig.get_axes() and every colorbar axes
AxesChoices(f) ==
    {SetMin(AxsUnordered(f)), SetMax(AxsUnordered(f))}
        \cup {a \in 1..Len(f.axes) : IsColorbarAxes(f.axes[a])}

\* a panel whose width and height have whole 5 % and 3 % in length units
ParentChoices(f) ==
    {a \in AxsUnordered(f) :
        /\ GetAxesSizeInches(f, a).width % 100 = 0
        /\ GetAxesSizeInches(f, a).height % 100 = 0
        /\ \A b \in AxsUnordered(f) :
              (GetAxesSizeInches(f, b).width % 100 = 0
                /\ GetAxesSizeInches(f, b).height % 100 = 0) => a <= b}

MarginsArgs(mode) ==
    {Scalar(5), Scalar(-5), Vector(<<1, 2, 3, 4>>), Vector(<<-1, -2, -3, -4>>)}
        \cup (IF mode = "single"
              THEN {Vector(<<2, 4>>), Vector(<<-2, -4>>), Vector(<<2, 4, 6>>),
                    Vector(<<>>), Vector(<<1, 2, 3, 4, 5>>)}
              ELSE {})

PadArgs(mode, n) ==
    IF mode = "single" THEN (0..n) \X {6, -2} ELSE {<<0, 6>>, <<1, 6>>}

AnchorNames ==
    {<<"center">>, <<"left">>, <<"right">>, <<"upper">>, <<"lower">>,
     <<"upper", "left">>, <<"upper", "right">>, <<"upper", "center">>,
     <<"center", "left">>, <<"center", "right">>, <<"center", "center">>,
     <<"lower", "left">>, <<"lower", "right">>, <<"lower", "center">>}

\* "middle", "top left" and ""
OtherAnchors == {<<"middle">>, <<"top", "left">>, <<>>}

SizeArgs(mode, f) ==
    IF mode = "single"
    THEN {[size_inch |-> sz, aspect |-> asp, ax |-> a, anchor |-> anc] :
            sz \in {Scalar(3000), Vector(<<3000, 2000>>)},
            asp \in {Auto, Ratio(2, 3), Ratio(1, 2)},
            a \in AxesChoices(f), anc \in AnchorNames \cup OtherAnchors}
    ELSE {[size_inch |-> Vector(<<3000, 2000>>), aspect |-> Auto, ax |-> a, anchor |-> anc] :
            a \in {SetMin(AxsUnordered(f)), Len(f.axes)},
            anc \in {<<"center">>, <<"upper", "right">>}}

AlignArgs(mode, f, modes) ==
    IF mode = "single"
    THEN {[ax |-> a, reference_ax |-> b, alignment |-> m] :
            a \in AxesChoices(f), b \in AxesChoices(f),
            m \in {"center", "left", "right", "top", "bottom"}}
    ELSE {[ax |-> SetMax(AxsUnordered(f)), reference_ax |-> SetMin(AxsUnordered(f)),
           alignment |-> m] : m \in modes}

ColorbarArgs(mode, f) ==
    IF mode = "single"
    THEN {[ax |-> a, location |-> l, thickness_pts |-> t, pad_pts |-> p] :
            a \in ParentChoices(f), l \in Sides \cup {"center"},
            t \in {None, Some(9)}, p \in {None, Some(4)}}
    ELSE {[ax |-> a, location |-> l, thickness_pts |-> None, pad_pts |-> None] :
            a \in ParentChoices(f), l \in {"right", "bottom"}}

\* the queries and set_axes_position_inch are not tried in sequences
QueryAxes(mode, f) == IF mode # "sequence" THEN 1..Len(f.axes) ELSE {}

QueryPads(mode, n) == IF mode # "sequence" THEN (0..n) \X BOOLEAN ELSE {}

QueryMargins(mode) ==
    IF mode # "sequence"
    THEN {Scalar(FALSE), Scalar(TRUE), Vector(<<TRUE, FALSE, FALSE, TRUE>>)}
    ELSE {}

PositionArgs(mode, f) ==
    IF mode = "single"
    THEN {[ax |-> a, x0_inch |-> 500, y0_inch |-> 700, width_inch |-> 2000,
           height_inch |-> 1000] : a \in AxesChoices(f)}
    ELSE {}

AddMarginsPtsCall ==
    /\ CanCall
    /\ \E margins_pts \in MarginsArgs(probe.mode) :
          \E r \in {add_margins_pts(Here, margins_pts)} :
              Call("add_margins_pts", [margins_pts |-> margins_pts], r)

AddColumnPadPtsCall ==
    /\ CanCall
    /\ \E a \in PadArgs(probe.mode, fig.ncols) :
          \E r \in {add_column_pad_pts(Here, a[1], a[2])} :
              Call("add_column_pad_pts", [icol |-> a[1], pad_pts |-> a[2]], r)

AddRowPadPtsCall ==
    /\ CanCall
    /\ \E a \in PadArgs(probe.mode, fig.nrows) :
          \E r \in {add_row_pad_pts(Here, a[1], a[2])} :
              Call("add_row_pad_pts", [irow |-> a[1], pad_pts |-> a[2]], r)

SetAxesSizeInchesCall ==
    /\ CanCall
    /\ \E a \in SizeArgs(probe.mode, fig) :
          \E r \in {set_axes_size_inches(Here, a.size_inch, a.aspect, a.ax, a.anchor)} :
              Call("set_axes_size_inches", a, r)

AlignAxesHorizontallyCall ==
    /\ CanCall
    /\ \E a \in AlignArgs(probe.mode, fig, {"right"}) :
          \E r \in {align_axes_horizontally(Here, a.ax, a.reference_ax, a.alignment)} :
              Call("align_axes_horizontally", a, r)

AlignAxesVerticallyCall ==
    /\ CanCall
    /\ \E a \in AlignArgs(probe.mode, fig, {"top"}) :
          \E r \in {align_axes_vertically(Here, a.ax, a.reference_ax, a.alignment)} :
              Call("align_axes_vertically", a, r)

\* the side, thickness and pad of a colorbar box beside its parent's box
Attached(location, cax, par) ==
    [location |-> location,
     thickness_inch |-> IF location \in {"left", "right"} THEN cax.x1 - cax.x0
                        ELSE cax.y1 - cax.y0,
     pad_inch |-> IF location = "left" THEN par.x0 - cax.x1
                  ELSE IF location = "right" THEN cax.x0 - par.x1
                  ELSE IF location = "top" THEN cax.y0 - par.y1
                  ELSE par.y0 - cax.y1]

AddColorbarCall ==
    /\ CanCall
    /\ \E a \in ColorbarArgs(probe.mode, fig) :
          \E r \in {add_colorbar(Here, a.ax, a.location, a.thickness_pts, a.pad_pts)} :
              /\ fig' = r.fig
              /\ eng' = r.eng
              /\ hist' = Observe("add_colorbar", fig,
                                 IF r.err = NoErr THEN "returned" ELSE "raised", r.err)
              /\ probe' = Counted(a, r.out,
                    IF r.err # NoErr THEN probe.att
                    ELSE (r.out :> Attached(a.location,
                                            GetAxesPositionInch(r.fig, r.out),
                                            GetAxesPositionInch(r.fig, a.ax)))
                         @@ probe.att)
              /\ UNCHANGED <<cfg, pc, loc>>

SetAxesPositionInchCall ==
    /\ CanCall
    /\ \E a \in PositionArgs(probe.mode, fig) :
          \E r \in {set_axes_position_inch(Here, a.ax, a.x0_inch, a.y0_inch,
                                           a.width_inch, a.height_inch)} :
              Call("set_axes_position_inch", a, r)

GetMarginsPtsCall ==
    /\ CanQuery
    /\ \E ignore_labels \in QueryMargins(probe.mode) :
          \E r \in {get_margins_pts(Here, ignore_labels)} :
              Call("get_margins_pts", [ignore_labels |-> ignore_labels], r)

GetColumnPadPtsCall ==
    /\ CanQuery
    /\ \E a \in QueryPads(probe.mode, fig.ncols) :
          \E r \in {get_column_pad_pts(Here, a[1], a[2])} :
              Call("get_column_pad_pts", [icol |-> a[1], ignore_labels |-> a[2]], r)

GetRowPadPtsCall ==
    /\ CanQuery
    /\ \E a \in QueryPads(probe.mode, fig.nrows) :
          \E r \in {get_row_pad_pts(Here, a[1], a[2])} :
              Call("get_row_pad_pts", [irow |-> a[1], ignore_labels |-> a[2]], r)

GetAxesSizeInchesCall ==
    /\ CanQuery
    /\ \E ax \in QueryAxes(probe.mode, fig) :
          \E r \in {get_axes_size_inches(Here, ax)} :
              Call("get_axes_size_inches", [ax |-> ax], r)

GetAxesPositionInchCall ==
    /\ CanQuery
    /\ \E ax \in QueryAxes(probe.mode, fig) :
          \E r \in {get_axes_position_inch(Here, ax)} :
              Call("get_axes_position_inch", [ax |-> ax], r)

GetAxesTightbboxInchCall ==
    /\ CanQuery
    /\ \E ax \in QueryAxes(probe.mode, fig) :
          \E r \in {get_axes_tightbbox_inch(Here, ax)} :
              Call("get_axes_tightbbox_inch", [ax |-> ax], r)

GetAxesMarginsInchesCall ==
    /\ CanQuery
    /\ \E ax \in QueryAxes(probe.mode, fig) :
          \E r \in {get_axes_margins_inches(Here, ax)} :
              Call("get_axes_margins_inches", [ax |-> ax], r)

\* a draw of the figure: its layout engine, when it is this one, is executed
ExecuteCall ==
    /\ CanExecute
    /\ fig.layout_engine = "FixedAxesLayoutEngine"
    /\ ExecuteStep(Counted(<<>>, NoOut, probe.att))

OtherEngine(f) == [f EXCEPT !.layout_engine = "ConstrainedLayoutEngine"]

\* figures for sequences of calls: clean grids of two columns
SequenceFigures ==
    {MakeFigure(nrows, 2, v, side, "grid") :
        nrows \in 1..2, v \in GeometryVariants, side \in {"none", "left", "top"}}

\* figures for single calls: every clean grid, and some figures that have
\* another layout engine
SingleFigures ==
    {MakeFigure(sh[1], sh[2], v, side, "grid") :
        sh \in {x \in (1..MaxRows) \X (1..MaxCols) : x[1] * x[2] <= MaxCells},
        v \in GeometryVariants, side \in Sides \cup {"none"}}
    \cup {OtherEngine(MakeFigure(1, 2, v, side, "grid")) :
            v \in GeometryVariants, side \in {"none", "right"}}

\* clean grids of at most two rows and two columns with a colorbar that was
\* not attached with add_colorbar
HandmadeFigures ==
    {MakeFigure(sh[1], sh[2], v, side, "long_colorbar") :
        sh \in (1..2) \X (1..2), v \in GeometryVariants, side \in Sides}

\* the colorbar MakeFigure adds is the last axes, attached on the side it was
\* classified with, Geo.cbt thick and Geo.cbp away
InitialAtt(f) ==
    [a \in {i \in 1..Len(f.axes) : IsColorbarAxes(f.axes[i])} |->
        Attached(GetColorbarLocation(GetPosition(f, a), GetPosition(f, f.axes[a].parent)),
                 GetAxesPositionInch(f, a), GetAxesPositionInch(f, f.axes[a].parent))]

InitApi ==
    /\ \/ \E mode \in {"sequence", "single", "solve"} :
             \E f \in (IF mode = "single" THEN SingleFigures ELSE SequenceFigures) :
                 /\ fig = f
                 /\ probe = ApiProbe(mode, InitialAtt(f))
       \/ \E f \in HandmadeFigures :
             /\ fig = f
             /\ probe = ApiProbe("measure", <<>>)
    /\ cfg = DefaultConfig
    /\ eng = EngineCleared
    /\ pc = "idle"
    /\ loc = LocInit
    /\ hist = Observe("Init", fig, "none", NoErr)

NextApi ==
    \/ AddMarginsPtsCall
    \/ AddColumnPadPtsCall
    \/ AddRowPadPtsCall
    \/ SetAxesSizeInchesCall
    \/ AlignAxesHorizontallyCall
    \/ AlignAxesVerticallyCall
    \/ AddColorbarCall
    \/ SetAxesPositionInchCall
    \/ GetMarginsPtsCall
    \/ GetColumnPadPtsCall
    \/ GetRowPadPtsCall
    \/ GetAxesSizeInchesCall
    \/ GetAxesPositionInchCall
    \/ GetAxesTightbboxInchCall
    \/ GetAxesMarginsInchesCall
    \/ ExecuteCall
    \/ NestedExecute
    \/ ApplyNormalize
    \/ ApplyPass
    \/ ApplyCheck
    \/ ExecuteFinally

SpecApi == InitApi /\ [][NextApi]_vars

----------------------------------------------------------------------------
(* The margin and pad functions called with fig = f while another figure,  *)
(* act, is the one plt.gcf() returns.  No solve is running, so the engine  *)
(* of f has neither grid nor colorbars cached.                             *)

Outcome(f, act, err, out) == [fig |-> f, act |-> act, err |-> err, out |-> out]

\* "engine = _validate_and_get_layout_engine(fig)" on fig = f
ValidatedOf(f, act, r) ==
    IF ValidateAndGetLayoutEngine(f) # NoErr
    THEN Outcome(f, act, ValidateAndGetLayoutEngine(f), NoOut)
    ELSE r

\* axs and bboxes are those of f; _get_axes_tightbbox_inch scans the colorbars
\* of plt.gcf(), and none of them has a panel of f as its parent
MeasureGridOf(f, act) ==
    LET boxes(g, cb) ==
            IF g.err # NoErr THEN [err |-> g.err]
            ELSE IF cb.err # NoErr THEN [err |-> cb.err]
            ELSE CHOOSE r \in
                    {[err |-> NoErr, axs |-> g.grid.cells, bboxes |-> b, tbboxes |-> t] :
                        b \in {GetBboxesInchGrid(f, g.grid.cells)},
                        t \in {GetTbboxesInchGrid(f, g.grid.cells, <<>>)}} :
                    TRUE
    IN  CHOOSE r \in
            {boxes(g, cb) : g \in {GetSortedAxesGrid(f)}, cb \in {GetListOfColorbars(act)}} :
            TRUE

\* _get_margins_pts(ignore_labels, fig)
GetMarginsPtsOf(f, act, ignore_labels) ==
    LET answer(m) ==
            IF m.err # NoErr THEN Outcome(f, act, m.err, NoOut)
            ELSE CHOOSE r \in
                    {IF q.err # NoErr THEN Outcome(f, act, q.err, NoOut)
                     ELSE Outcome(f, act, NoErr, QPtsFromInch(q.q)) :
                        q \in {GetMarginsInch(ignore_labels, m.bboxes, m.tbboxes,
                                   [w |-> f.w, h |-> f.h], f.nrows, f.ncols)}} :
                    TRUE
    IN  ValidatedOf(f, act, CHOOSE r \in {answer(m) : m \in {MeasureGridOf(f, act)}} : TRUE)

\* _get_column_pad_pts(icol, ignore_labels, fig)
GetColumnPadPtsOf(f, act, icol, ignore_labels) ==
    LET answer(m) ==
            IF m.err # NoErr THEN Outcome(f, act, m.err, NoOut)
            ELSE IF 0 < icol /\ icol < f.ncols THEN
                CHOOSE r \in
                    {Outcome(f, act, NoErr, PtsFromInch(pads_inch.v[icol])) :
                        pads_inch \in {GetColpadsInch(f.nrows, f.ncols,
                                           Scalar(ignore_labels), m.bboxes, m.tbboxes)}} :
                    TRUE
            ELSE
                CHOOSE r \in
                    {Outcome(f, act, NoErr, PtsFromInch(IF icol = 0 THEN pads_inch.q.left
                                                        ELSE pads_inch.q.right)) :
                        pads_inch \in {GetMarginsInch(Scalar(ignore_labels),
                                           m.bboxes, m.tbboxes,
                                           [w |-> f.w, h |-> f.h], f.nrows, f.ncols)}} :
                    TRUE
    IN  ValidatedOf(f, act, CHOOSE r \in {answer(m) : m \in {MeasureGridOf(f, act)}} : TRUE)

\* _get_row_pad_pts(irow, ignore_labels, fig): "self._get_sorted_axes_grid()"
\* is called without fig, so axs, bboxes and tbboxes are those of plt.gcf();
\* only the size in the margins branch is that of fig
GetRowPadPtsOf(f, act, irow, ignore_labels) ==
    LET answer(m) ==
            IF m.err # NoErr THEN Outcome(f, act, m.err, NoOut)
            ELSE IF 0 < irow /\ irow < act.nrows THEN
                CHOOSE r \in
                    {Outcome(f, act, NoErr, PtsFromInch(pads_inch.v[irow])) :
                        pads_inch \in {GetRowpadsInch(act.nrows, act.ncols,
                                           Scalar(ignore_labels), m.bboxes, m.tbboxes)}} :
                    TRUE
            ELSE
                CHOOSE r \in
                    {Outcome(f, act, NoErr, PtsFromInch(IF irow = 0 THEN pads_inch.q.top
                                                        ELSE pads_inch.q.bottom)) :
                        pads_inch \in {GetMarginsInch(Scalar(ignore_labels),
                                           m.bboxes, m.tbboxes,
                                           [w |-> f.w, h |-> f.h], act.nrows, act.ncols)}} :
                    TRUE
    IN  ValidatedOf(f, act,
            CHOOSE r \in
                {answer(m) : m \in {MeasureGrid([fig |-> act, eng |-> EngineCleared,
                                                  err |-> NoErr])}} : TRUE)

\* fig.set_size_inches and the loop of _set_axes_position_inch calls
ShiftOf(f, fw_new, fh_new, axs, bboxes_inch, shift) ==
    SetGridPositions([f EXCEPT !.w = fw_new, !.h = fh_new], axs, bboxes_inch, shift,
                     CellSeq(f.nrows, f.ncols), 1)

\* _add_margins_pts(margins_pts, fig): the colorbars are scanned in fig, and
\* "self._update_colorbars()" puts them back with the size of plt.gcf()
AddMarginsPtsOf(f, act, margins_pts) ==
    LET go(g, margins, cb) ==
            IF g.err # NoErr THEN Outcome(f, act, g.err, NoOut)
            ELSE IF margins.err # NoErr THEN Outcome(f, act, margins.err, NoOut)
            ELSE IF cb.err # NoErr THEN Outcome(f, act, cb.err, NoOut)
            ELSE CHOOSE r \in
                    {Outcome(UpdateColorbars(f2, cb.list, act.w, act.h), act, NoErr, NoOut) :
                        f2 \in {ShiftOf(f,
                            f.w + InchFromPts(margins.q.left) + InchFromPts(margins.q.right),
                            f.h + InchFromPts(margins.q.top) + InchFromPts(margins.q.bottom),
                            g.grid.cells, GetBboxesInchGrid(f, g.grid.cells),
                            [rc \in DOMAIN g.grid.cells |->
                                [dx |-> InchFromPts(margins.q.left),
                                 dy |-> InchFromPts(margins.q.bottom)]])}} : TRUE
    IN  ValidatedOf(f, act,
            CHOOSE r \in
                {go(g, margins, cb) : g \in {GetSortedAxesGrid(f)},
                                      margins \in {ProcessMarginslikeArg(margins_pts)},
                                      cb \in {GetListOfColorbars(f)}} : TRUE)

\* _add_column_pad_pts(icol, pad_pts, fig): "self._get_list_of_colorbars()" and
\* "self._update_colorbars()" are called without fig, so the colorbars of
\* plt.gcf() are put back and those of fig stay where they are
AddColumnPadPtsOf(f, act, icol, pad_pts) ==
    LET go(g, cb) ==
            IF g.err # NoErr THEN Outcome(f, act, g.err, NoOut)
            ELSE IF cb.err # NoErr THEN Outcome(f, act, cb.err, NoOut)
            ELSE CHOOSE r \in
                    {Outcome(f2, UpdateColorbars(act, cb.list, act.w, act.h), NoErr, NoOut) :
                        f2 \in {ShiftOf(f, f.w + InchFromPts(pad_pts), f.h,
                            g.grid.cells, GetBboxesInchGrid(f, g.grid.cells),
                            [rc \in DOMAIN g.grid.cells |->
                                [dx |-> IF rc[2] - 1 < icol THEN 0 ELSE InchFromPts(pad_pts),
                                 dy |-> 0]])}} : TRUE
    IN  ValidatedOf(f, act,
            CHOOSE r \in
                {go(g, cb) : g \in {GetSortedAxesGrid(f)},
                             cb \in {GetListOfColorbars(act)}} : TRUE)

\* _add_row_pad_pts(irow, pad_pts, fig), as _add_column_pad_pts
AddRowPadPtsOf(f, act, irow, pad_pts) ==
    LET go(g, cb) ==
            IF g.err # NoErr THEN Outcome(f, act, g.err, NoOut)
            ELSE IF cb.err # NoErr THEN Outcome(f, act, cb.err, NoOut)
            ELSE CHOOSE r \in
                    {Outcome(f2, UpdateColorbars(act, cb.list, act.w, act.h), NoErr, NoOut) :
                        f2 \in {ShiftOf(f, f.w, f.h + InchFromPts(pad_pts),
                            g.grid.cells, GetBboxesInchGrid(f, g.grid.cells),
                            [rc \in DOMAIN g.grid.cells |->
                                [dx |-> 0,
                                 dy |-> IF rc[1] - 1 >= irow THEN 0
                                        ELSE InchFromPts(pad_pts)]])}} : TRUE
    IN  ValidatedOf(f, act,
            CHOOSE r \in
                {go(g, cb) : g \in {GetSortedAxesGrid(f)},
                             cb \in {GetListOfColorbars(act)}} : TRUE)

\* the figures that are active while fig is worked on: a grid with a colorbar
\* made by add_colorbar, a grid with a hand-made colorbar, a single panel
ActiveFigures ==
    LET v1 == CHOOSE v \in GeometryVariants : v.gap = 0
        v2 == CHOOSE v \in GeometryVariants : v.gap # 0
    IN  {MakeFigure(2, 1, v1, "right", "grid"),
         MakeFigure(1, 2, v2, "top", "long_colorbar"),
         MakeFigure(1, 1, v2, "none", "grid")}

FigProbe(act) ==
    [op |-> "fig", n |-> 0, args |-> <<>>, out |-> NoOut, act |-> act, pre_act |-> act]

\* the call name(args, fig = fig) with outcome r
FigCall(name, args, r) ==
    /\ fig' = r.fig
    /\ probe' = [probe EXCEPT !.n = @ + 1, !.args = args, !.out = r.out,
                              !.act = r.act, !.pre_act = probe.act]
    /\ hist' = Observe(name, fig, IF r.err = NoErr THEN "returned" ELSE "raised", r.err)
    /\ UNCHANGED <<eng, cfg, pc, loc>>

CanCallOf == probe.op = "fig" /\ pc = "idle" /\ probe.n < 1

GetMarginsPtsOfCall ==
    /\ CanCallOf
    /\ \E ignore_labels \in QueryMargins("single") :
          \E r \in {GetMarginsPtsOf(fig, probe.act, ignore_labels)} :
              FigCall("get_margins_pts", [ignore_labels |-> ignore_labels], r)

GetColumnPadPtsOfCall ==
    /\ CanCallOf
    /\ \E a \in QueryPads("single", fig.ncols) :
          \E r \in {GetColumnPadPtsOf(fig, probe.act, a[1], a[2])} :
              FigCall("get_column_pad_pts", [icol |-> a[1], ignore_labels |-> a[2]], r)

GetRowPadPtsOfCall ==
    /\ CanCallOf
    /\ \E a \in QueryPads("single", fig.nrows) :
          \E r \in {GetRowPadPtsOf(fig, probe.act, a[1], a[2])} :
              FigCall("get_row_pad_pts", [irow |-> a[1], ignore_labels |-> a[2]], r)

AddMarginsPtsOfCall ==
    /\ CanCallOf
    /\ \E margins_pts \in MarginsArgs("sequence") :
          \E r \in {AddMarginsPtsOf(fig, probe.act, margins_pts)} :
              FigCall("add_margins_pts", [margins_pts |-> margins_pts], r)

AddColumnPadPtsOfCall ==
    /\ CanCallOf
    /\ \E a \in PadArgs("single", fig.ncols) :
          \E r \in {AddColumnPadPtsOf(fig, probe.act, a[1], a[2])} :
              FigCall("add_column_pad_pts", [icol |-> a[1], pad_pts |-> a[2]], r)

AddRowPadPtsOfCall ==
    /\ CanCallOf
    /\ \E a \in PadArgs("single", fig.nrows) :
          \E r \in {AddRowPadPtsOf(fig, probe.act, a[1], a[2])} :
              FigCall("add_row_pad_pts", [irow |-> a[1], pad_pts |-> a[2]], r)

InitFig ==
    /\ \E f \in SequenceFigures, act \in ActiveFigures :
          /\ fig = f
          /\ probe = FigProbe(act)
    /\ cfg = DefaultConfig
    /\ eng = EngineCleared
    /\ pc = "idle"
    /\ loc = LocInit
    /\ hist = Observe("Init", fig, "none", NoErr)

NextFig ==
    \/ GetMarginsPtsOfCall
    \/ GetColumnPadPtsOfCall
    \/ GetRowPadPtsOfCall
    \/ AddMarginsPtsOfCall
    \/ AddColumnPadPtsOfCall
    \/ AddRowPadPtsOfCall

SpecFig == InitFig /\ [][NextFig]_vars

----------------------------------------------------------------------------
(* Properties of the solver *)

DataAxes(f) == {a \in 1..Len(f.axes) : ~f.axes[a].cb}

Solved == pc = "idle" /\ hist.last = "ExecuteFinally" /\ hist.outcome = "returned"

\* C1: at every point of a solve and after it, every data panel has the
\* physical width and height it had when execute was entered, and nothing of
\* an axes other than its position has changed.
C1_PanelSizesKept ==
    /\ Len(fig.axes) = Len(hist.pre.axes)
    /\ \A a \in DataAxes(hist.pre) :
        /\ GetAxesSizeInches(fig, a) = GetAxesSizeInches(hist.pre, a)
        /\ [fig.axes[a] EXCEPT !.pos = hist.pre.axes[a].pos] = hist.pre.axes[a]

\* a finished solve of a 2 x 2 grid that changed the figure's width and height
\* and moved a panel
C1_Witness ==
    /\ Solved
    /\ fig.nrows = 2 /\ fig.ncols = 2
    /\ fig.w # hist.pre.w /\ fig.h # hist.pre.h
    /\ \E a \in DataAxes(fig) :
        GetAxesPositionInch(fig, a) # GetAxesPositionInch(hist.pre, a)

\* the value the normalisation of a margin-like argument gives one side
SideValue(arg, side) ==
    LET v == arg.v
        n == Len(v)
    IN  IF arg.ndim = 0 \/ n = 1 THEN v[1]
        ELSE IF n = 2 THEN (IF side \in {"top", "bottom"} THEN v[1] ELSE v[2])
        ELSE IF n = 3
        THEN (IF side = "top" THEN v[1] ELSE IF side = "bottom" THEN v[3] ELSE v[2])
        ELSE (IF side = "top" THEN v[1] ELSE IF side = "right" THEN v[2]
              ELSE IF side = "bottom" THEN v[3] ELSE v[4])

\* the pad wanted at boundary k: the scalar, or the sequence's entry k (its
\* last entry where the sequence is shorter than k)
PadValue(arg, k) ==
    IF arg.ndim = 0 THEN arg.v[1]
    ELSE IF k <= Len(arg.v) THEN arg.v[k]
    ELSE arg.v[Len(arg.v)]

\* margins and gaps of the figure as it stands, measured with the configured
\* label flags
Measured ==
    LET axs == GetSortedAxesGrid(fig).grid.cells
        b == GetBboxesInchGrid(fig, axs)
        t == GetTbboxesInchGrid(fig, axs, GetListOfColorbars(fig).list)
    IN  [margins |-> GetMarginsInch(cfg.margin_pad_ignores_labels, b, t,
                                    [w |-> fig.w, h |-> fig.h], fig.nrows, fig.ncols).q,
         colpads |-> GetColpadsInch(fig.nrows, fig.ncols, cfg.col_pad_ignores_labels,
                                    b, t).v,
         rowpads |-> GetRowpadsInch(fig.nrows, fig.ncols, cfg.row_pad_ignores_labels,
                                    b, t).v]

\* C2: after execute returned without error with nruns >= 1, each measured
\* margin equals the desired margin of its side and each measured gap between
\* neighbouring columns (rows) equals the desired column (row) pad.
C2_MarginsAndPadsReached ==
    (Solved /\ cfg.nruns >= 1) =>
        \A m \in {Measured} :
            /\ \A side \in Sides :
                m.margins[side] = InchFromPts(SideValue(cfg.margin_pad_pts, side))
            /\ \A k \in 1..(fig.ncols - 1) :
                m.colpads[k] = InchFromPts(PadValue(cfg.col_pad_pts, k))
            /\ \A k \in 1..(fig.nrows - 1) :
                m.rowpads[k] = InchFromPts(PadValue(cfg.row_pad_pts, k))

\* a finished solve of a 2 x 2 grid with a colorbar, unequal margins, and
\* panels that started with other gaps than the desired ones
C2_Witness ==
    /\ Solved /\ cfg.nruns >= 1
    /\ fig.nrows = 2 /\ fig.ncols = 2
    /\ \E a \in 1..Len(fig.axes) : fig.axes[a].cb
    /\ cfg.margin_pad_pts.ndim = 1
    /\ hist.pre.axes[1].pos.x0 # fig.axes[1].pos.x0
    /\ hist.pre.w - fig.w # hist.pre.h - fig.h

\* the count of 10^-5 inch nearest to u length units
NearestCount(u) ==
    LET g == GCD(Pow10(RoundDecimals), UNITS_PER_INCH)
        n == Pow10(RoundDecimals) \div g
        d == UNITS_PER_INCH \div g
        lo == (u * n) \div d
    IN  CHOOSE r \in lo..(lo + 1) : 2 * Abs(r * d - u * n) <= d

\* C3: the width check after the passes raises ValueError exactly when the
\* figure width rounded to 5 decimals is greater than max_figwidth.
C3_WidthCheck ==
    hist.last = "ApplyCheck" =>
        ((loc.err = "ValueError:too_wide") <=>
            (~cfg.max_figwidth.inf /\ NearestCount(fig.w) * 10 > cfg.max_figwidth.v))

\* the check raised for a width that exceeds the limit only once rounded
C3_Witness ==
    /\ hist.last = "ApplyCheck"
    /\ loc.err = "ValueError:too_wide"
    /\ loc.run >= 1
    /\ fig.w * (Pow10(6) \div GCD(Pow10(6), UNITS_PER_INCH))
         < cfg.max_figwidth.v * (UNITS_PER_INCH \div GCD(Pow10(6), UNITS_PER_INCH))

\* C4: an execute that arrives while an execute is in progress returns at
\* once: figure and engine are as before, the flag stays set, and the outer
\* execute goes on.
C4_NestedExecuteIgnored ==
    [][(pc = "draw" /\ pc' # "draw") =>
            (fig' = fig /\ eng' = eng /\ eng'.execute_in_progress /\ pc' = "args")]_vars

C4_Witness ==
    /\ hist.last = "NestedExecute"
    /\ pc = "args"
    /\ eng.execute_in_progress
    /\ ~eng.axes_grid.isNone

\* C5 (as the spec states it): whenever a top-level execute has ended, by
\* returning or by raising, the in-progress flag is false and both caches are
\* empty.
C5_ClearedAfterExecute ==
    (pc = "idle" /\ hist.outcome \in {"returned", "raised"}) => eng = EngineCleared

\* a data panel without a grid descriptor, data panels of several grid
\* specifications, or a data panel spanning cells
Malformed(f) ==
    \/ \E a \in DataAxes(f) : f.axes[a].ss.gs = 0
    \/ \E a, b \in DataAxes(f) : f.axes[a].ss.gs # f.axes[b].ss.gs
    \/ \E a \in DataAxes(f) : f.axes[a].ss.num1 # f.axes[a].ss.num2

\* C6: grid extraction raises ValueError for a malformed figure and changes
\* nothing; a colorbar, which has no grid descriptor, never makes it raise.
C6_ExtractionErrors ==
    (hist.last = "Execute" /\ hist.outcome # "ignored") =>
        /\ Malformed(hist.pre) =>
            /\ hist.outcome = "raised"
            /\ hist.err \in {"ValueError:no_subplotspec", "ValueError:multiple_gridspecs",
                             "ValueError:too_fancy"}
            /\ fig = hist.pre
            /\ eng.axes_grid = NoGrid
        /\ ~Malformed(hist.pre) =>
            hist.err \in {NoErr, "AttributeError:parent"}

\* extraction raised for a panel spanning two cells in a figure with a colorbar
C6_Witness ==
    /\ hist.last = "Execute"
    /\ hist.outcome = "raised"
    /\ hist.err = "ValueError:too_fancy"
    /\ \E a \in 1..Len(fig.axes) : fig.axes[a].cb

ArgAccepted(arg, n) == arg.ndim = 0 \/ Len(arg.v) = n - 1

\* C9 (as the spec states it): a col_pad_pts (row_pad_pts) sequence of length
\* ncols - 1 (nrows - 1) is accepted and its k-th entry is the pad of
\* boundary k, a scalar is the pad of every boundary, and a sequence of any
\* other length is a validation error.
C9_SequencePads ==
    (hist.last = "ApplyNormalize"
        /\ ProcessMarginslikeArg(cfg.margin_pad_pts).err = NoErr) =>
        IF ArgAccepted(cfg.col_pad_pts, fig.ncols) /\ ArgAccepted(cfg.row_pad_pts, fig.nrows)
        THEN /\ loc.err = NoErr
             /\ loc.desired_colpads =
                    [k \in 1..(fig.ncols - 1) |-> InchFromPts(PadValue(cfg.col_pad_pts, k))]
             /\ loc.desired_rowpads =
                    [k \in 1..(fig.nrows - 1) |-> InchFromPts(PadValue(cfg.row_pad_pts, k))]
        ELSE loc.err \in {"ValueError:rowcol_length", "ValueError:invalid_length"}

----------------------------------------------------------------------------
(* Properties of the pure functions *)

Applied(op) == probe.op = op /\ probe.done

\* the cell (row, column), counted from 1 at the top left, of data panel a
OwnCell(f, a) ==
    <<(f.axes[a].ss.num1 \div f.ncols) + 1, (f.axes[a].ss.num1 % f.ncols) + 1>>

\* the extraction's result has the grid's shape, no empty cell, and every
\* data panel in the cell of its own row and column
WellSorted(f, out) ==
    /\ out.err = NoErr
    /\ DOMAIN out.grid.cells = (1..f.nrows) \X (1..f.ncols)
    /\ \A rc \in DOMAIN out.grid.cells : out.grid.cells[rc] \in DataAxes(f)
    /\ \A a \in DataAxes(f) : out.grid.cells[OwnCell(f, a)] = a

\* C7 (as the spec states it): extraction on any number of panels that share
\* one grid specification and span one cell each gives an (nrows, ncols) array
\* with every cell populated exactly once and each panel in its own cell.
C7_AnyPanels ==
    Applied("grid") => WellSorted(probe.in, probe.out)

\* the data panels occupy every cell of the grid, one panel per cell
FullGrid(f) ==
    /\ Cardinality(DataAxes(f)) = f.nrows * f.ncols
    /\ \A a, b \in DataAxes(f) : a # b => f.axes[a].ss.num1 # f.axes[b].ss.num1

\* C7 (amended): extraction on nrows * ncols panels that share one grid
\* specification, span one cell each and sit in pairwise different cells gives
\* an (nrows, ncols) array with every cell populated exactly once and each
\* panel in its own cell, row 1 the top row and column 1 the left column.
C7_FullGridSorted ==
    (Applied("grid") /\ FullGrid(probe.in)) => WellSorted(probe.in, probe.out)

\* a 2 x 2 grid whose panels come in another order than the cells, with a
\* colorbar axes in the figure
C7_Witness ==
    /\ Applied("grid") /\ FullGrid(probe.in)
    /\ probe.in.nrows = 2 /\ probe.in.ncols = 2
    /\ probe.in.axes[1].ss.num1 = 2 /\ probe.in.axes[2].ss.num1 = 1
    /\ Len(probe.in.axes) = 5
    /\ probe.out.grid.cells[<<2, 1>>] = 1

\* C8: _process_marginslike_arg gives a scalar or a one-entry sequence to all
\* four sides, (a, b) as top = bottom = a and right = left = b, (a, b, c) as
\* top = a, right = left = b, bottom = c, four entries as top, right, bottom,
\* left, and raises ValueError for every other length.
C8_MarginslikeNormalised ==
    Applied("marginslike") =>
        IF probe.in.ndim = 0 \/ Len(probe.in.v) \in 1..4
        THEN /\ probe.out.err = NoErr
             /\ \A side \in Sides : probe.out.q[side] = SideValue(probe.in, side)
        ELSE probe.out.err = "ValueError:invalid_length"

\* three different entries, normalised
C8_Witness ==
    /\ Applied("marginslike")
    /\ probe.in = Vector(<<3, 5, 8>>)
    /\ probe.out.q = Quadrants(3, 5, 8, 5)

\* twice the centre of a fraction box, as fractions dx2 / (2 fw), dy2 / (2 fh)
Centre2(bb) == [x |-> 2 * bb.x0 + bb.width, y |-> 2 * bb.y0 + bb.height]

\* C10: with (dx, dy) the offset from the parent's centre to the colorbar's
\* centre, the side is right if |dx| > |dy| and dx > 0, left if |dx| > |dy|
\* and dx < 0, top if |dy| > |dx| and dy > 0, bottom if |dy| > |dx| and
\* dy < 0; parent centre (0.5, 0.5) with colorbar centre (0.9, 0.5) gives
\* right, and with (0.5, 0.9) gives top.
C10_ColorbarSide ==
    Applied("location") =>
        LET c == Centre2(probe.in.cax)
            p == Centre2(probe.in.parent)
            fw == probe.in.cax.fw
            fh == probe.in.cax.fh
            dx == (c.x - p.x) * fh
            dy == (c.y - p.y) * fw
            at(bb, x, y) == Centre2(bb) = [x |-> 2 * x, y |-> 2 * y] /\ fw = 100 /\ fh = 100
        IN  /\ (Abs(dx) > Abs(dy) /\ dx > 0) => probe.out = "right"
            /\ (Abs(dx) > Abs(dy) /\ dx < 0) => probe.out = "left"
            /\ (Abs(dy) > Abs(dx) /\ dy > 0) => probe.out = "top"
            /\ (Abs(dy) > Abs(dx) /\ dy < 0) => probe.out = "bottom"
            /\ (at(probe.in.parent, 50, 50) /\ at(probe.in.cax, 90, 50)) => probe.out = "right"
            /\ (at(probe.in.parent, 50, 50) /\ at(probe.in.cax, 50, 90)) => probe.out = "top"

\* a colorbar further from the parent's centre in x than in y by the
\* numerators, but not as fractions of the 2 : 1 figure
C10_Witness ==
    /\ Applied("location")
    /\ probe.in.cax.fw = 200 /\ probe.in.cax.fh = 100
    /\ Centre2(probe.in.cax) = [x |-> 180, y |-> 60]
    /\ Centre2(probe.in.parent) = [x |-> 100, y |-> 100]
    /\ probe.out = "bottom"

----------------------------------------------------------------------------
(* Properties of the public functions *)

\* no call so far has been set_axes_position_inch, which moves a panel and
\* nothing else
NotMovedByHand ==
    /\ probe.op = "api"
    /\ hist.last # "set_axes_position_inch"
    /\ probe.prev.op # "set_axes_position_inch"

\* colorbar axes a lies along the side of its parent: same extent along the
\* edge it is attached to
SameExtent(f, a, location) ==
    LET cax == GetAxesPositionInch(f, a)
        par == GetAxesPositionInch(f, f.axes[a].parent)
    IN  IF location \in {"left", "right"} THEN cax.y0 = par.y0 /\ cax.y1 = par.y1
        ELSE cax.x0 = par.x0 /\ cax.x1 = par.x1

\* C11: whatever add margins, add column pad, add row pad, set size, align
\* and solves have been made, every colorbar attached with add_colorbar is on
\* the side it was attached on, has the thickness and the pad it was attached
\* with, lies pad away from the parent's edge and is as long as that edge.
C11_ColorbarsKept ==
    NotMovedByHand =>
        \A a \in DOMAIN probe.att :
            /\ GetColorbarLocation(GetPosition(fig, a),
                                   GetPosition(fig, fig.axes[a].parent))
                    = probe.att[a].location
            /\ Attached(probe.att[a].location, GetAxesPositionInch(fig, a),
                        GetAxesPositionInch(fig, fig.axes[a].parent)) = probe.att[a]
            /\ SameExtent(fig, a, probe.att[a].location)

\* a panel was resized, then a solve ran to its end, and a colorbar is at
\* another place than before the resize
C11_Witness ==
    /\ NotMovedByHand
    /\ pc = "idle" /\ hist.last = "ExecuteFinally" /\ hist.outcome = "returned"
    /\ probe.prev.op = "set_axes_size_inches" /\ probe.prev.outcome = "returned"
    /\ \E a \in DOMAIN probe.att :
          /\ a \in DOMAIN probe.prev.pre.axes
          /\ GetAxesPositionInch(fig, a) # GetAxesPositionInch(probe.prev.pre, a)
          /\ GetAxesSizeInches(fig, fig.axes[a].parent)
                # GetAxesSizeInches(probe.prev.pre, fig.axes[a].parent)

\* the last call was op and returned
Did(op) == probe.op = "api" /\ hist.last = op /\ hist.outcome = "returned"

\* the call before the last was op and returned
DidBefore(op) == probe.prev.op = op /\ probe.prev.outcome = "returned"

\* box b moved by (dx, dy)
Shifted(b, dx, dy) ==
    [x0 |-> b.x0 + dx, y0 |-> b.y0 + dy, x1 |-> b.x1 + dx, y1 |-> b.y1 + dy]

\* an idle engine looking at figure f
Idle(f) == [fig |-> f, eng |-> EngineCleared, err |-> NoErr]

ColumnPads(f) ==
    [x \in (0..f.ncols) \X BOOLEAN |-> get_column_pad_pts(Idle(f), x[1], x[2]).out]

RowPads(f) ==
    [x \in (0..f.nrows) \X BOOLEAN |-> get_row_pad_pts(Idle(f), x[1], x[2]).out]

SizesKept(f, g) ==
    \A a \in 1..Len(f.axes) : GetAxesSizeInches(f, a) = GetAxesSizeInches(g, a)

PanelsInColumn(f, c) == {a \in AxsUnordered(f) : f.axes[a].ss.num1 % f.ncols = c}

PanelsInRow(f, r) == {a \in AxsUnordered(f) : f.axes[a].ss.num1 \div f.ncols = r}

\* the box of panel a that a measurement with ignore_labels uses
BoxUsed(f, a, ignore_labels) ==
    IF ignore_labels THEN GetAxesPositionInch(f, a)
    ELSE GetAxesTightbboxInch(f, a, GetListOfColorbars(f).list)

\* free space between column i - 1 and column i, and between row i - 1 and
\* row i (the upper one), in hundredths of a point
ColumnGapPts(f, i, ignore_labels) ==
    PtsFromInch(SetMin({BoxUsed(f, a, ignore_labels).x0 : a \in PanelsInColumn(f, i)})
                - SetMax({BoxUsed(f, a, ignore_labels).x1 : a \in PanelsInColumn(f, i - 1)}))

RowGapPts(f, i, ignore_labels) ==
    PtsFromInch(SetMin({BoxUsed(f, a, ignore_labels).y0 : a \in PanelsInRow(f, i - 1)})
                - SetMax({BoxUsed(f, a, ignore_labels).y1 : a \in PanelsInRow(f, i)}))

Requested(args) ==
    IF args.size_inch.ndim > 0
    THEN [width |-> args.size_inch.v[1], height |-> args.size_inch.v[2]]
    ELSE IF args.aspect.auto
    THEN [width |-> args.size_inch.v[1], height |-> args.size_inch.v[1]]
    ELSE [width |-> args.size_inch.v[1],
          height |-> (args.size_inch.v[1] * args.aspect.num) \div args.aspect.den]

Words(anchor) == {anchor[i] : i \in DOMAIN anchor}

\* twice the coordinates of the point of box b that the anchor names
AnchorPoint(b, anchor) ==
    [x |-> IF "left" \in Words(anchor) THEN 2 * b.x0
           ELSE IF "right" \in Words(anchor) THEN 2 * b.x1
           ELSE b.x0 + b.x1,
     y |-> IF "lower" \in Words(anchor) THEN 2 * b.y0
           ELSE IF "upper" \in Words(anchor) THEN 2 * b.y1
           ELSE b.y0 + b.y1]

\* after a set size that returned, get size gives the requested size, the
\* anchor point is where it was and the figure has the size it had
SizeSetAsRequested ==
    /\ get_axes_size_inches(Idle(fig), probe.args.ax).out = Requested(probe.args)
    /\ AnchorPoint(GetAxesPositionInch(fig, probe.args.ax), probe.args.anchor)
            = AnchorPoint(GetAxesPositionInch(hist.pre, probe.args.ax), probe.args.anchor)
    /\ fig.w = hist.pre.w /\ fig.h = hist.pre.h

\* C15 as stated: for every panel, every requested size and every documented
\* anchor, after set size get size returns the requested size, the anchor
\* point has not moved and the figure size is unchanged.
C15_AnyPanel ==
    (Did("set_axes_size_inches") /\ probe.args.anchor \in AnchorNames)
        => SizeSetAsRequested

\* C15, amended: the same for every panel that is not a colorbar panel.
C15_DataPanels ==
    (/\ Did("set_axes_size_inches")
     /\ probe.args.anchor \in AnchorNames
     /\ ~IsColorbarAxes(hist.pre.axes[probe.args.ax]))
        => SizeSetAsRequested

\* a panel that carries a colorbar was resized about its upper right corner
C15_Witness ==
    /\ Did("set_axes_size_inches")
    /\ probe.args.anchor = <<"upper", "right">>
    /\ ~IsColorbarAxes(hist.pre.axes[probe.args.ax])
    /\ \E a \in 1..Len(fig.axes) :
          IsColorbarAxes(fig.axes[a]) /\ fig.axes[a].parent = probe.args.ax
    /\ GetAxesSizeInches(fig, probe.args.ax) # GetAxesSizeInches(hist.pre, probe.args.ax)
    /\ GetAxesPositionInch(fig, probe.args.ax).x0
            # GetAxesPositionInch(hist.pre, probe.args.ax).x0

\* the last call was op, whether it returned or raised, on a figure that has
\* this layout engine
Tried(op) ==
    /\ probe.op = "api"
    /\ hist.last = op
    /\ hist.pre.layout_engine = "FixedAxesLayoutEngine"

\* the last call raised err and changed neither the figure (panels, colorbars,
\* size) nor the engine's fields
RaisedUnchanged(err) ==
    /\ hist.outcome = "raised" /\ hist.err = err
    /\ fig = hist.pre
    /\ eng = probe.pre_eng

\* C16: set_axes_size_inches with a (width, height) pair and a numeric aspect
\* other than height / width raises ValueError and leaves the panel, the
\* colorbars and the engine's caches as they were; with a pair that agrees
\* with the aspect the call does what it does without the aspect, and gives a
\* panel that is not a colorbar the width and height of the pair.
C16_PairAndAspect ==
    (/\ Tried("set_axes_size_inches")
     /\ probe.args.size_inch.ndim > 0
     /\ ~probe.args.aspect.auto) =>
        IF probe.args.size_inch.v[2] * probe.args.aspect.den
                # probe.args.aspect.num * probe.args.size_inch.v[1]
        THEN RaisedUnchanged("ValueError:size_aspect")
        ELSE /\ \E r \in {set_axes_size_inches(
                              [fig |-> hist.pre, eng |-> probe.pre_eng, err |-> NoErr],
                              probe.args.size_inch, Auto, probe.args.ax,
                              probe.args.anchor)} :
                    fig = r.fig /\ eng = r.eng /\ hist.err = r.err
             /\ (/\ probe.args.anchor \in AnchorNames
                 /\ ~IsColorbarAxes(hist.pre.axes[probe.args.ax])) =>
                    /\ hist.outcome = "returned"
                    /\ GetAxesSizeInches(fig, probe.args.ax) =
                          [width |-> probe.args.size_inch.v[1],
                           height |-> probe.args.size_inch.v[2]]

\* a pair that contradicts the aspect was refused for a panel that carries a
\* colorbar and has another size than the pair
C16_Witness ==
    /\ Tried("set_axes_size_inches")
    /\ hist.err = "ValueError:size_aspect"
    /\ probe.args.size_inch.ndim > 0
    /\ probe.args.aspect = Ratio(1, 2)
    /\ probe.args.anchor \in AnchorNames
    /\ \E a \in 1..Len(fig.axes) :
          IsColorbarAxes(fig.axes[a]) /\ fig.axes[a].parent = probe.args.ax
    /\ GetAxesSizeInches(fig, probe.args.ax).width # probe.args.size_inch.v[1]

\* C17: a choice outside its list is refused with ValueError and no panel
\* changes: a side other than left, right, top, bottom in add_colorbar, an
\* anchor other than the documented names in set_axes_size_inches, an
\* alignment other than center, left, right (center, top, bottom) in
\* align_axes_horizontally (align_axes_vertically).
C17_ChoicesRejected ==
    /\ (Tried("add_colorbar") /\ probe.args.location \notin Sides)
            => RaisedUnchanged("ValueError:location")
    /\ (Tried("align_axes_horizontally")
            /\ probe.args.alignment \notin {"center", "left", "right"})
            => RaisedUnchanged("ValueError:alignment")
    /\ (Tried("align_axes_vertically")
            /\ probe.args.alignment \notin {"center", "top", "bottom"})
            => RaisedUnchanged("ValueError:alignment")
    /\ (Tried("set_axes_size_inches") /\ probe.args.anchor \notin AnchorNames)
            => \/ RaisedUnchanged("ValueError:anchor")
               \/ RaisedUnchanged("ValueError:size_aspect")

\* box b is aligned with box r along x (or y) in the given mode
AlignedX(b, r, alignment) ==
    IF alignment = "left" THEN b.x0 = r.x0
    ELSE IF alignment = "right" THEN b.x1 = r.x1
    ELSE b.x0 + b.x1 = r.x0 + r.x1

AlignedY(b, r, alignment) ==
    IF alignment = "bottom" THEN b.y0 = r.y0
    ELSE IF alignment = "top" THEN b.y1 = r.y1
    ELSE b.y0 + b.y1 = r.y0 + r.y1

\* what the last call, an align that returned, has done to ax and to
\* reference_ax
AlignedAsAsked ==
    LET ax == probe.args.ax
        ref == probe.args.reference_ax
        b == GetAxesPositionInch(fig, ax)
        b0 == GetAxesPositionInch(hist.pre, ax)
    IN  /\ GetAxesPositionInch(fig, ref) = GetAxesPositionInch(hist.pre, ref)
        /\ GetAxesSizeInches(fig, ax) = GetAxesSizeInches(hist.pre, ax)
        /\ IF hist.last = "align_axes_horizontally"
           THEN /\ AlignedX(b, GetAxesPositionInch(hist.pre, ref), probe.args.alignment)
                /\ b.y0 = b0.y0
           ELSE /\ AlignedY(b, GetAxesPositionInch(hist.pre, ref), probe.args.alignment)
                /\ b.x0 = b0.x0

Aligning == Did("align_axes_horizontally") \/ Did("align_axes_vertically")

EngineFunctions ==
    {"get_axes_size_inches", "set_axes_size_inches", "get_axes_position_inch",
     "set_axes_position_inch", "get_axes_tightbbox_inch", "get_axes_margins_inches",
     "get_margins_pts", "add_margins_pts", "get_column_pad_pts", "add_column_pad_pts",
     "get_row_pad_pts", "add_row_pad_pts", "align_axes_horizontally",
     "align_axes_vertically"}

\* the last call was one of ops, on a figure that has another layout engine
TriedWithout(ops) ==
    /\ probe.op = "api"
    /\ hist.last \in ops
    /\ hist.pre.layout_engine # "FixedAxesLayoutEngine"

\* C19 as stated: every public query or mutation, add_colorbar among them,
\* raises TypeError on a figure whose layout engine is not
\* FixedAxesLayoutEngine, and changes nothing.
C19_EveryFunction ==
    TriedWithout(EngineFunctions \cup {"add_colorbar"})
        => RaisedUnchanged("TypeError:layout_engine")

\* C19, amended: every public query or mutation other than add_colorbar
\* raises TypeError on such a figure and changes neither a panel, a colorbar,
\* the figure size nor the engine.
C19_EngineFunctions ==
    TriedWithout(EngineFunctions) => RaisedUnchanged("TypeError:layout_engine")

\* margins were to be added to a figure with a colorbar and another layout
\* engine
C19_Witness ==
    /\ TriedWithout({"add_margins_pts"})
    /\ hist.err = "TypeError:layout_engine"
    /\ ProcessMarginslikeArg(probe.args.margins_pts).err = NoErr
    /\ \E a \in 1..Len(fig.axes) : IsColorbarAxes(fig.axes[a])

\* C20: add_colorbar with a valid side adds exactly one panel, beside the
\* parent on that side; its thickness is 5 % of the parent's width (left,
\* right) or height (top, bottom) unless given, its pad 60 % of the thickness
\* it got unless given, the gap to the parent's edge is the pad, it is as long
\* as the parent's edge, and the parent's box and everything else stay.
C20_AddColorbar ==
    Did("add_colorbar") =>
        LET new == Len(fig.axes)
            ax == probe.args.ax
            location == probe.args.location
            par == GetAxesPositionInch(fig, ax)
            got == Attached(location, GetAxesPositionInch(fig, new), par)
            along == IF location \in {"left", "right"} THEN par.x1 - par.x0
                     ELSE par.y1 - par.y0
        IN  /\ new = Len(hist.pre.axes) + 1
            /\ \A a \in 1..Len(hist.pre.axes) : fig.axes[a] = hist.pre.axes[a]
            /\ fig.w = hist.pre.w /\ fig.h = hist.pre.h
            /\ IsColorbarAxes(fig.axes[new]) /\ fig.axes[new].parent = ax
            /\ GetColorbarLocation(GetPosition(fig, new), GetPosition(fig, ax)) = location
            /\ IF probe.args.thickness_pts.isNone
               THEN 100 * got.thickness_inch = DEFAULT_THICKNESS * along
               ELSE got.thickness_inch = InchFromPts(probe.args.thickness_pts.v)
            /\ IF probe.args.pad_pts.isNone
               THEN 100 * got.pad_inch = DEFAULT_PAD * got.thickness_inch
               ELSE got.pad_inch = InchFromPts(probe.args.pad_pts.v)
            /\ got.pad_inch > 0
            /\ SameExtent(fig, new, location)

\* a colorbar of given thickness and default pad was put above a panel of a
\* figure that had a colorbar already
C20_Witness ==
    /\ Did("add_colorbar")
    /\ probe.args.location = "top"
    /\ probe.args.thickness_pts = Some(9) /\ probe.args.pad_pts = None
    /\ \E a \in 1..Len(hist.pre.axes) : IsColorbarAxes(hist.pre.axes[a])
    /\ Len(fig.axes) = Len(hist.pre.axes) + 1

----------------------------------------------------------------------------
(* Properties of the named tuples *)

\* component i of an operand: a scalar is broadcast to every component
Component(x, i) == IF x.cls = "scalar" THEN x.v[1] ELSE x.v[i]

\* C21: q op r, q op s and s op q (op one of + - * / //) are a new instance
\* of q's class whose i-th component is (left operand)_i op (right
\* operand)_i, in this order; -q has the components -q_i.
C21_Elementwise ==
    Applied("arith") =>
        LET e == probe.in
            q == IF e.left.cls = "scalar" THEN e.right ELSE e.left
        IN  /\ probe.out.cls = q.cls
            /\ DOMAIN probe.out.v = DOMAIN q.v
            /\ \A i \in DOMAIN q.v :
                    probe.out.v[i] =
                        IF e.name = "neg" THEN 0 - q.v[i]
                        ELSE NumOp(e.name, Component(e.left, i), Component(e.right, i))

----------------------------------------------------------------------------
(* Properties of the queries *)

QueryFunctions ==
    {"get_axes_size_inches", "get_axes_position_inch", "get_axes_tightbbox_inch",
     "get_axes_margins_inches", "get_margins_pts", "get_column_pad_pts",
     "get_row_pad_pts"}

----------------------------------------------------------------------------
(* Properties of a pass *)

\* the desired gap at boundary k, a one-entry sequence being broadcast
DesiredAt(desired, k) == IF Len(desired) = 1 THEN desired[1] ELSE desired[k]

\* the gaps of the figure s.fig as a solve measures them
GapsNow(s, c, kind) ==
    LET axs == s.eng.axes_grid.cells
        b == GetBboxesInchGrid(s.fig, axs)
        t == GetTbboxesInchGrid(s.fig, axs, s.eng.colorbars)
    IN  IF kind = "col"
        THEN GetColpadsInch(s.fig.nrows, s.fig.ncols, c.col_pad_ignores_labels, b, t).v
        ELSE GetRowpadsInch(s.fig.nrows, s.fig.ncols, c.row_pad_ignores_labels, b, t).v

\* the boundaries k.. of one kind adjusted one after the other, each by the
\* delta of its gap as measured when its turn comes
RECURSIVE CloseGaps(_, _, _, _, _)
CloseGaps(s, c, d, kind, k) ==
    LET axs == s.eng.axes_grid.cells
        n == IF kind = "col" THEN s.fig.ncols ELSE s.fig.nrows
        step(gap) ==
            IF kind = "col"
            THEN AddColpadInch(s, k, 0 - (gap - DesiredAt(d.desired_colpads, k)), axs,
                               GetBboxesInchGrid(s.fig, axs), s.fig.nrows, s.fig.ncols)
            ELSE AddRowpadInch(s, k, 0 - (gap - DesiredAt(d.desired_rowpads, k)), axs,
                               GetBboxesInchGrid(s.fig, axs), s.fig.nrows, s.fig.ncols)
    IN  IF k > n - 1 THEN s
        ELSE CHOOSE r \in
                {CloseGaps(t, c, d, kind, k + 1) :
                    t \in {step(gap) : gap \in {GapsNow(s, c, kind)[k]}}} : TRUE

\* a pass that measures each gap after the margin adjustment and after the
\* adjustments of the earlier boundaries
PassWithGapsMeasuredInTurn(s, c, d) ==
    LET axs == s.eng.axes_grid.cells
        b == GetBboxesInchGrid(s.fig, axs)
        t == GetTbboxesInchGrid(s.fig, axs, s.eng.colorbars)
        m == GetMarginsInch(c.margin_pad_ignores_labels, b, t,
                            [w |-> s.fig.w, h |-> s.fig.h], s.fig.nrows, s.fig.ncols)
    IN  CHOOSE r \in
            {CloseGaps(s2, c, d, "row", 1) :
                s2 \in {CloseGaps(s1, c, d, "col", 1) :
                    s1 \in {AddMarginsInch(s, QNeg(QSub(m.q, d.desired_margin_pads)),
                                           axs, b, s.fig.nrows, s.fig.ncols)}}} : TRUE

\* C23: a pass that raises nothing leaves the figure as a pass does that
\* computes the delta of every interior column and row boundary from the gap
\* measured after the margin adjustment and after the adjustments of the
\* earlier boundaries (columns left to right, then rows top to bottom).
C23_GapsMeasuredInTurn ==
    [][(ApplyPass /\ pc' = "loop") =>
            fig' = PassWithGapsMeasuredInTurn(
                        [fig |-> fig, eng |-> eng, err |-> NoErr], cfg, loc).fig]_vars

----------------------------------------------------------------------------
(* Order of render and extraction *)

\* the render pass of the running solve is still to come
RenderPending == pc = "draw"

\* C24: while a solve runs, the panel grid and the colorbar records are in
\* the engine's caches only after the render pass of that solve has been made.
C24_RenderBeforeExtraction ==
    (eng.execute_in_progress /\ (~eng.axes_grid.isNone \/ eng.colorbars # <<>>)) =>
        ~RenderPending

----------------------------------------------------------------------------
(* Properties of the measurement *)

\* the label flag of a side and of boundary k, from the configured argument
SideFlag(arg, side) == SideValue(arg, side)

BoundaryFlag(arg, k) == IF arg.ndim = 0 THEN arg.v[1] ELSE arg.v[k]

\* the margins and gaps of figure f read off the panels themselves: rows and
\* columns from the subplotspecs, the panel's box when the flag is true and
\* its box with labels and colorbars otherwise
MarginsOf(f, c) ==
    LET il(side) == SideFlag(c.margin_pad_ignores_labels, side)
    IN  Quadrants(
            SetMin({f.h - BoxUsed(f, a, il("top")).y1 : a \in PanelsInRow(f, 0)}),
            SetMin({f.w - BoxUsed(f, a, il("right")).x1 : a \in PanelsInColumn(f, f.ncols - 1)}),
            SetMin({BoxUsed(f, a, il("bottom")).y0 : a \in PanelsInRow(f, f.nrows - 1)}),
            SetMin({BoxUsed(f, a, il("left")).x0 : a \in PanelsInColumn(f, 0)}))

ColumnGapsOf(f, c) ==
    [k \in 1..(f.ncols - 1) |->
        SetMin({BoxUsed(f, a, BoundaryFlag(c.col_pad_ignores_labels, k)).x0
                - BoxUsed(f, b, BoundaryFlag(c.col_pad_ignores_labels, k)).x1 :
                    a \in PanelsInColumn(f, k), b \in PanelsInColumn(f, k - 1)})]

RowGapsOf(f, c) ==
    [k \in 1..(f.nrows - 1) |->
        SetMin({BoxUsed(f, a, BoundaryFlag(c.row_pad_ignores_labels, k)).y0
                - BoxUsed(f, b, BoundaryFlag(c.row_pad_ignores_labels, k)).y1 :
                    a \in PanelsInRow(f, k - 1), b \in PanelsInRow(f, k)})]

\* C25: the margins a pass measures are, per side, the smallest distance
\* between the figure edge and the facing edge of a panel of the bordering
\* row or column, and the gap it measures at an interior boundary is the
\* smallest gap over all pairs of panels on its two sides; each side and each
\* boundary uses the panel boxes when its label flag is true and the boxes
\* with labels and colorbars otherwise.
C25_MarginsAndGaps ==
    [][(ApplyPass /\ pc' = "loop") =>
            /\ loc'.current_margins = MarginsOf(fig, cfg)
            /\ loc'.current_colpads = ColumnGapsOf(fig, cfg)
            /\ loc'.current_rowpads = RowGapsOf(fig, cfg)]_vars

\* a pass has measured a grid of three columns and two rows or more whose
\* two column boundaries have different label flags, with per-side margin flags
C25_Witness ==
    /\ pc = "loop" /\ loc.run >= 1
    /\ fig.ncols = 3
    /\ cfg.col_pad_ignores_labels.ndim = 1
    /\ cfg.margin_pad_ignores_labels.ndim = 1
    /\ loc.current_colpads[1] # loc.current_colpads[2]
    /\ loc.current_margins.left # loc.current_margins.right

----------------------------------------------------------------------------
(* Properties of the full box *)

\* the edges of the parent's box that a colorbar on the given side can move
\* outwards: all but the one it shares with the parent
Extends(side) ==
    IF side = "left" THEN {"left", "top", "bottom"}
    ELSE IF side = "right" THEN {"right", "top", "bottom"}
    ELSE IF side = "top" THEN {"top", "left", "right"}
    ELSE {"bottom", "left", "right"}

\* the colorbar axes of f whose parent is panel a
ColorbarsOf(f, a) == {c \in 1..Len(f.axes) : IsColorbarAxes(f.axes[c]) /\ f.axes[c].parent = a}

SideOf(f, c) == GetColorbarLocation(GetPosition(f, c), GetPosition(f, f.axes[c].parent))

\* the rendered footprints that count for one edge of the full box of a
Counting(f, a, edge) ==
    {RenderedExtentInch(f, a)}
        \cup {RenderedExtentInch(f, c) : c \in {k \in ColorbarsOf(f, a) : edge \in Extends(SideOf(f, k))}}

\* C26: the box get_axes_tightbbox_inch returns for a panel is the panel's
\* rendered footprint moved outwards, edge by edge, to the footprint of each
\* colorbar of that panel that does not share this edge with it (a left
\* colorbar counts for left, top and bottom, a right one for right, top and
\* bottom, a top one for top, left and right, a bottom one for bottom, left
\* and right); colorbars of other panels do not count.
C26_FullBox ==
    Did("get_axes_tightbbox_inch") =>
        LET a == probe.args.ax
        IN  /\ probe.out.x0 = SetMin({b.x0 : b \in Counting(fig, a, "left")})
            /\ probe.out.x1 = SetMax({b.x1 : b \in Counting(fig, a, "right")})
            /\ probe.out.y0 = SetMin({b.y0 : b \in Counting(fig, a, "bottom")})
            /\ probe.out.y1 = SetMax({b.y1 : b \in Counting(fig, a, "top")})

\* the full box of a panel with a top colorbar longer than the panel, in a
\* figure with more panels: wider at both ends and higher than the panel's
\* footprint, and with the same lower edge
C26_Witness ==
    /\ Did("get_axes_tightbbox_inch")
    /\ Cardinality(AxsUnordered(fig)) > 1
    /\ \E c \in ColorbarsOf(fig, probe.args.ax) : SideOf(fig, c) = "top"
    /\ probe.out.x0 < RenderedExtentInch(fig, probe.args.ax).x0
    /\ probe.out.x1 > RenderedExtentInch(fig, probe.args.ax).x1
    /\ probe.out.y1 > RenderedExtentInch(fig, probe.args.ax).y1
    /\ probe.out.y0 = RenderedExtentInch(fig, probe.args.ax).y0

----------------------------------------------------------------------------
(* Number of passes *)

\* the width check of the running or the last solve has been made
WidthCheckMade ==
    \/ hist.last = "ApplyCheck"
    \/ hist.last = "ExecuteFinally" /\ loc.err \in {NoErr, "ValueError:too_wide"}

\* every pass that ends raises run by one and nothing else changes it
PassesCounted ==
    /\ (ApplyPass /\ pc' = "loop") => loc'.run = loc.run + 1
    /\ ~ApplyPass => (loc'.run = loc.run \/ loc'.run = 0)

\* C27: a solve that has begun comes to its end; when its width check is
\* made, exactly nruns passes have been made (none when nruns <= 0, and then
\* the figure is as it was when execute was entered), however far from the
\* desired layout the figure was and is.
C27_ExactlyNrunsPasses ==
    /\ [][PassesCounted]_vars
    /\ [](WidthCheckMade =>
            /\ loc.run = (IF cfg.nruns > 0 THEN cfg.nruns ELSE 0)
            /\ cfg.nruns <= 0 => fig = hist.pre)
    /\ (pc # "idle") ~> (pc = "idle")

\* a solve of MaxRuns passes has ended on a figure that the last pass no
\* longer changed much but the solve as a whole did
C27_Witness ==
    /\ pc = "idle" /\ hist.last = "ExecuteFinally"
    /\ WidthCheckMade
    /\ cfg.nruns = MaxRuns
    /\ loc.run = MaxRuns
    /\ fig.w # hist.pre.w

----------------------------------------------------------------------------
(* Idempotence *)

\* the last solve returned without an exception after at least one pass
SolveSucceeded ==
    /\ pc = "idle"
    /\ hist.last = "ExecuteFinally"
    /\ hist.outcome = "returned"
    /\ cfg.nruns >= 1

\* the figure after the first pass of one more execute on f with
\* configuration c
FirstPassOfNextSolve(f, c) ==
    CHOOSE r \in
        {ApplyPassBody([fig |-> f,
                        eng |-> [execute_in_progress |-> TRUE, axes_grid |-> g.grid,
                                 colorbars |-> cb.list],
                        err |-> NoErr], c, d) :
            g \in {GetSortedAxesGrid(f)}, cb \in {GetListOfColorbars(f)},
            d \in {NormalizeArgs(c, f.nrows, f.ncols)}} :
        TRUE

\* every colorbar of f lies where _update_colorbars puts it: along the whole
\* side of its parent, as add_colorbar makes it
ColorbarsSpanParents(f) ==
    \E cb \in {GetListOfColorbars(f)} :
        cb.err = NoErr /\ UpdateColorbars(f, cb.list, f.w, f.h) = f

\* C28 as stated: the labels of the model's panels move with them, and so a
\* pass after the first pass of a solve changes no panel, no colorbar and no
\* figure size, and neither does the first pass of one more execute on the
\* figure a solve that succeeded has left.
C28_Idempotent ==
    /\ [][(ApplyPass /\ loc.run >= 1 /\ pc' = "loop") => fig' = fig]_vars
    /\ [](SolveSucceeded =>
            \E s \in {FirstPassOfNextSolve(fig, cfg)} : s.err = NoErr /\ s.fig = fig)

\* C28, amended: the same for the solves that began on a figure whose
\* colorbars span their parents.
C28_IdempotentSpanning ==
    /\ [][(ApplyPass /\ loc.run >= 1 /\ pc' = "loop" /\ ColorbarsSpanParents(hist.pre))
            => fig' = fig]_vars
    /\ []((SolveSucceeded /\ ColorbarsSpanParents(hist.pre)) =>
            \E s \in {FirstPassOfNextSolve(fig, cfg)} : s.err = NoErr /\ s.fig = fig)

\* a solve of one pass has succeeded and has changed the figure, and execute
\* has been called on its result and has succeeded again
C28_Witness ==
    /\ SolveSucceeded
    /\ ColorbarsSpanParents(hist.pre)
    /\ cfg.nruns = 1
    /\ fig = hist.pre
    /\ fig.w # MakeFigure(fig.nrows, fig.ncols, CHOOSE v \in GeometryVariants : v.gap = 0,
                          "none", "grid").w
    /\ fig.nrows > 1 /\ fig.ncols > 1
    /\ Len(fig.axes) > fig.nrows * fig.ncols

----------------------------------------------------------------------------
(* Calls with an explicit figure *)

\* the outcome of the call name(args) on figure f when f itself is the
\* active figure
OnActiveFigure(name, args, f) ==
    LET s == [fig |-> f, eng |-> EngineCleared, err |-> NoErr]
    IN  IF name = "get_margins_pts" THEN get_margins_pts(s, args.ignore_labels)
        ELSE IF name = "get_column_pad_pts"
        THEN get_column_pad_pts(s, args.icol, args.ignore_labels)
        ELSE IF name = "get_row_pad_pts"
        THEN get_row_pad_pts(s, args.irow, args.ignore_labels)
        ELSE IF name = "add_margins_pts" THEN add_margins_pts(s, args.margins_pts)
        ELSE IF name = "add_column_pad_pts"
        THEN add_column_pad_pts(s, args.icol, args.pad_pts)
        ELSE add_row_pad_pts(s, args.irow, args.pad_pts)

\* C29: a margin or pad function called with fig = F returns what it returns
\* and leaves F as it leaves it when F is the active figure, whichever figure
\* is active, and the active figure is left as it was.
C29_OnlyTheGivenFigure ==
    (probe.op = "fig" /\ probe.n = 1) =>
        \E r \in {OnActiveFigure(hist.last, probe.args, hist.pre)} :
            /\ hist.err = r.err
            /\ probe.out = r.out
            /\ fig = r.fig
            /\ probe.act = probe.pre_act

----------------------------------------------------------------------------
(* The width check *)

\* execute has raised the error of the width check
TooWideRaised ==
    /\ pc = "idle"
    /\ hist.last = "ExecuteFinally"
    /\ hist.err = "ValueError:too_wide"

\* k passes on s, one after the other
RECURSIVE AfterPasses(_, _, _, _)
AfterPasses(s, c, d, k) ==
    IF k <= 0 \/ s.err # NoErr THEN s
    ELSE CHOOSE r \in
            {AfterPasses(t, c, d, k - 1) : t \in {ApplyPassBody(s, c, d)}} : TRUE

\* the figure all the passes of a solve with configuration c make of f
FigureAfterSolve(f, c) ==
    CHOOSE r \in
        {AfterPasses([fig |-> f,
                      eng |-> [execute_in_progress |-> TRUE, axes_grid |-> g.grid,
                               colorbars |-> cb.list],
                      err |-> NoErr], c, d, c.nruns).fig :
            g \in {GetSortedAxesGrid(f)}, cb \in {GetListOfColorbars(f)},
            d \in {NormalizeArgs(c, f.nrows, f.ncols)}} :
        TRUE

\* C30: the width check is made when no pass is left to make, it and the
\* finally clause leave the figure as it is, and after the error of the
\* width check the figure is the one all the passes made of the figure
\* execute was entered with, while the engine has no flag and no cache set.
C30_TooWideKeepsTheLayout ==
    /\ [][(ApplyCheck \/ ExecuteFinally) => fig' = fig]_vars
    /\ [](hist.last = "ApplyCheck" => ~(loc.run < cfg.nruns))
    /\ [](TooWideRaised =>
            /\ fig = FigureAfterSolve(hist.pre, cfg)
            /\ eng = EngineCleared)

\* the error was raised after MaxRuns passes that moved panels and resized
\* the figure
C30_Witness ==
    /\ TooWideRaised
    /\ cfg.nruns = MaxRuns
    /\ loc.run = MaxRuns
    /\ fig.w # hist.pre.w
    /\ \E a \in DataAxes(fig) : fig.axes[a].pos # hist.pre.axes[a].pos

====
